---- MODULE Spec2Model ----
(***************************************************************************)
(* Model of the auto-placement engine (autoPlaceFixtures, findBestPosition) *)
(* and of the coordinate transform (realUnitsToPixels, checkFit) of the    *)
(* floor-plan layout application.                                          *)
(*                                                                         *)
(* Numbers: the program computes in IEEE doubles.  The model computes in   *)
(* exact integers; the inputs drawn below (integer pixelsPerMillimeter,    *)
(* candidate dimensions that are multiples of 20 mm) make every division   *)
(* of the code (width / 10, step / 2) exact, so that no rounding is hidden.*)
(*                                                                         *)
(* Where rounding is the matter (the round trip of the two conversions),   *)
(* numbers are binary floating-point numbers m * 2^e with a significand of *)
(* SignificandBits bits, every operation rounded to nearest, ties to even, *)
(* as IEEE 754 does with 53 bits; exponents are unbounded (no overflow).   *)
(*                                                                         *)
(* The calibrator (calculateScaleFromLines, calculateSeparateScales,       *)
(* validateDimensionLines) computes in exact rationals; Math.sqrt of a     *)
(* number that is not a perfect square is rounded down to a multiple of    *)
(* 1/8, as the program rounds it to a double.  Reference lines have        *)
(* realLength > 0 and a pixel length above 10, as DimensionLineTool makes  *)
(* them.                                                                   *)
(*                                                                         *)
(* The application (App, ScaleCalibration): one action per handler.  The   *)
(* effect of ScaleCalibration that emits the scale is an action of its own:*)
(* React runs it after the render that follows a handler's setState, and   *)
(* every emission re-renders App with a new onScaleSet, which makes the    *)
(* effect due again; the model lets it run whenever ScaleCalibration is    *)
(* mounted.  Of FloorPlanState the fields of calibration and the list of   *)
(* manually placed fixtures are kept.                                      *)
(*                                                                         *)
(* Further specifications over the same variables: SpecManual (click       *)
(* placement and dragging), SpecChain (a second autoPlaceFixtures call after*)
(* the first was confirmed), SpecDeviation (validateDimensionLines of two  *)
(* lines in floating point), SpecStorage (the useCustomFixtures hook and its*)
(* localStorage entry; mount, effects and re-render are separate steps, as *)
(* React runs them), SpecSearch (findBestPosition alone, on wide areas where*)
(* the cap of the coarse step applies) and SpecLineTool (DimensionLineTool).*)
(***************************************************************************)
EXTENDS Integers, Sequences, FiniteSets, TLC

\* ------------------------------------------------------------------ bounds
\* Longest candidate list handed to autoPlaceFixtures.
MaxFixtures == 2

\* Bits of the significand of a floating-point number (53 in the program).
SignificandBits == 4

\* Longest list of reference lines handed to the calibrator.
MaxLines == 3

\* Longest undo history explored (the program keeps up to 50 entries).
MaxHistory == 5

\* Most calls of addFixture, updateFixture, deleteFixture and bulkAddFixtures.
MaxOps == 2

\* ---------------------------------------------------------------- helpers
Max(a, b) == IF a >= b THEN a ELSE b
Min(a, b) == IF a <= b THEN a ELSE b

\* Injective sequences over S of length at most n (lists without repeats).
InjSeqs(S, n) ==
  UNION { { s \in [1..k -> S] : \A i, j \in 1..k : i # j => s[i] # s[j] } : k \in 0..n }

\* ----------------------------------------------------------- input domains
\* "clearance" left out of the options object.
Omitted == -1

\* Candidate fixtures (Fixture: id, name, width and height in mm).
FixtureCatalogue ==
  { [id |-> "f1", name |-> "A", width |-> 40,  height |-> 20],
    [id |-> "f2", name |-> "B", width |-> 20,  height |-> 40],
    [id |-> "f3", name |-> "C", width |-> 20,  height |-> 20],
    [id |-> "f4", name |-> "D", width |-> 60,  height |-> 20] }

\* Already placed fixtures (PlacedFixture: position in calibration pixels).
\* P and Q lie on top of each other: manual placement checks only checkFit.
ExistingP == [id |-> "p1", name |-> "P", width |-> 15, height |-> 15,
              position |-> [x |-> 0, y |-> 0], rotation |-> 0]
ExistingQ == [id |-> "p2", name |-> "Q", width |-> 2, height |-> 40,
              position |-> [x |-> 0, y |-> 0], rotation |-> 0]
ExistingR == [id |-> "p3", name |-> "R", width |-> 30, height |-> 10,
              position |-> [x |-> 20, y |-> 10], rotation |-> 90]

ExistingChoices ==
  { << >>, << ExistingP >>, << ExistingP, ExistingQ >>, << ExistingR, ExistingP >> }

\* Placement areas, in millimeters.
AreaChoices ==
  { [id |-> "a1", x |-> 0,  y |-> 0,  width |-> 64,  height |-> 40],
    [id |-> "a2", x |-> 0,  y |-> 0,  width |-> 40,  height |-> 64],
    [id |-> "a3", x |-> 10, y |-> 10, width |-> 50,  height |-> 30] }

ClearanceChoices == { Omitted, 0, 2, 20 }

ScaleChoices ==
  { [imageWidth |-> 200, imageHeight |-> 100, pixelsPerMillimeter |-> p,
     unit |-> "millimeters"] : p \in {1, 2} }

\* Tokens of the generated ids `auto-${Date.now()}-${random}`.
AutoIds == { "auto-1", "auto-2" }

\* ------------------------------------------------------------------- state
VARIABLES
  pc,               \* position in autoPlaceFixtures: idle, loop, done
  area,             \* argument: PlacementArea
  fixtures,         \* argument: Fixture[]
  existingFixtures, \* argument: PlacedFixture[]
  options,          \* argument: {scaleInfo, clearance}
  usableArea,       \* local: area inset by clearance (mm)
  sortedFixtures,   \* local: sorted copy of fixtures
  occupiedSpaces,   \* local: occupancy list (pixel rectangles)
  placedFixtures,   \* local: placements so far
  fi,               \* index of the candidate of the outer loop
  oi,               \* index of the orientation of the inner loop
  result,           \* returned list (defined when pc = "done")
  attempts,         \* history: one record per orientation the loop has handled
  calls,            \* number of the call being made
  prevResult,       \* history: what the previous call returned, ids removed
  snapshot,         \* history: the arguments as they were before the first call
  fitPosition,      \* checkFit: argument fixturePos (pixels)
  fitSize,          \* checkFit: argument fixtureSize (mm)
  fitScale,         \* checkFit: argument scaleInfo
  fitResult,        \* checkFit: what the last call returned
  fitCalled,        \* checkFit: whether it has been called
  rtValue,          \* round trip: the number converted (a float)
  rtScale,          \* round trip: argument scaleInfo (pixelsPerMillimeter a float)
  rtThrough,        \* round trip: result of the first conversion
  rtBack,           \* round trip: result of converting that back
  rtDirection,      \* round trip: none, mm (mm -> px -> mm), px (px -> mm -> px)
  calLines,         \* calibrator: argument dimensionLines
  calScale,         \* calibrator: result of calculateScaleFromLines
  calSeparate,      \* calibrator: result of calculateSeparateScales
  calValidation,    \* calibrator: result of validateDimensionLines
  calCalled,        \* calibrator: whether the three functions have been called
  state,            \* App: FloorPlanState (imageUrl, scaleInfo, dimensionLines, isDrawingDimension)
  imageDimensions,  \* App: size of the uploaded image, or null
  historyRef,       \* App: undo history, a list of states
  historyIndexRef,  \* App: index of the current entry of the history, from 0
  isUndoRedoRef,    \* App: set by undo and redo, makes the next saveToHistory a no-op
  justEmitted,      \* history: the last step of App was the emission of a scale
  devLines,         \* two-line validation in floats: the two lines (pixelLength, realLength)
  devValidation,    \* two-line validation in floats: the result and its intermediate values
  devCalled,        \* two-line validation in floats: whether it has been called
  findArgs,         \* findBestPosition: width, height, usableArea, occupiedSpaces
  findResult,       \* findBestPosition: the position returned, or null
  findCalled,       \* findBestPosition: whether it has been called
  customFixtures,   \* useCustomFixtures: the state of the last render
  storageEntry,     \* useCustomFixtures: localStorage's entry under STORAGE_KEY
  pendingUpdates,   \* useCustomFixtures: setCustomFixtures calls not yet rendered
  effectsDue,       \* useCustomFixtures: effects of the last commit not yet run
  mounted,          \* useCustomFixtures: whether the hook has been mounted
  storedAtMount,    \* history: the entry localStorage held when the hook mounted
  opsDone,          \* history: number of add, update, delete and bulk-add calls
  lineTool,         \* DimensionLineTool: startPos, endPos, realLength, isInputVisible, imageSize
  createdLines      \* DimensionLineTool: the lines handed to onLineComplete

engineVars == << pc, area, fixtures, existingFixtures, options, usableArea,
                 sortedFixtures, occupiedSpaces, placedFixtures, fi, oi, result,
                 attempts, calls, prevResult, snapshot >>

fitVars == << fitPosition, fitSize, fitScale, fitResult, fitCalled >>

rtVars == << rtValue, rtScale, rtThrough, rtBack, rtDirection >>

\* Everything autoPlaceFixtures never touches.
calVars == << calLines, calScale, calSeparate, calValidation, calCalled >>

appVars == << state, imageDimensions, historyRef, historyIndexRef, isUndoRedoRef,
             justEmitted >>

devVars == << devLines, devValidation, devCalled >>

findVars == << findArgs, findResult, findCalled >>

hookVars == << customFixtures, storageEntry, pendingUpdates, effectsDue, mounted,
              storedAtMount, opsDone >>

toolVars == << lineTool, createdLines >>

laterVars == << devVars, findVars, hookVars, toolVars >>

outsideEngine == << fitVars, rtVars, calVars, appVars, laterVars >>

vars == << engineVars, outsideEngine >>

\* ------------------------------------------------------ coordinate transform
realUnitsToPixels(realUnits, scaleInfo) == realUnits * scaleInfo.pixelsPerMillimeter

\* ---- the same conversions on floating-point numbers
RECURSIVE Pow2(_)
Pow2(k) == IF k <= 0 THEN 1 ELSE 2 * Pow2(k - 1)

\* A positive float is [m, e], worth m * 2^e, with MinMantissa <= m < 2 * MinMantissa.
MinMantissa == Pow2(SignificandBits - 1)
Mantissas == MinMantissa .. (2 * MinMantissa - 1)
Fl(m, e) == [m |-> m, e |-> e]

\* The integer nearest to n / d, a tie going to the even one.
RoundNearestEven(n, d) ==
  LET q == n \div d
      r == n % d
  IN IF 2 * r < d THEN q
     ELSE IF 2 * r > d THEN q + 1
     ELSE IF q % 2 = 0 THEN q ELSE q + 1

\* The float nearest to (n / d) * 2^e0, for n, d > 0.
FlRound(n, d, e0) ==
  LET Num(s) == n * Pow2(0 - s)
      Den(s) == d * Pow2(s)
      s == CHOOSE t \in (0 - (SignificandBits + 1)) .. (SignificandBits + 1) :
             /\ MinMantissa * Den(t) <= Num(t)
             /\ Num(t) < 2 * MinMantissa * Den(t)
      m == RoundNearestEven(Num(s), Den(s))
  IN IF m = 2 * MinMantissa THEN Fl(MinMantissa, e0 + s + 1) ELSE Fl(m, e0 + s)

FlMul(a, b) == FlRound(a.m * b.m, 1, a.e + b.e)
FlDiv(a, b) == FlRound(a.m, b.m, a.e - b.e)

\* Zero, the one float without a normalised significand.
FlZero == Fl(0, 0)

\* a + b, for a, b > 0.
FlAdd(a, b) ==
  LET e0 == Min(a.e, b.e)
  IN FlRound(a.m * Pow2(a.e - e0) + b.m * Pow2(b.e - e0), 1, e0)

\* Math.abs(a - b), for a, b > 0.
FlAbsDiff(a, b) ==
  LET e0 == Min(a.e, b.e)
      n == a.m * Pow2(a.e - e0) - b.m * Pow2(b.e - e0)
  IN IF n = 0 THEN FlZero
     ELSE FlRound(IF n < 0 THEN 0 - n ELSE n, 1, e0)

\* a / 2, exact.
FlHalf(a) == Fl(a.m, a.e - 1)

\* a > b, for a, b >= 0.
FlGt(a, b) ==
  LET e0 == Min(a.e, b.e)
  IN a.m * Pow2(a.e - e0) > b.m * Pow2(b.e - e0)

\* return realUnits * scaleInfo.pixelsPerMillimeter
realUnitsToPixelsFl(realUnits, scaleInfo) == FlMul(realUnits, scaleInfo.pixelsPerMillimeter)

\* Variant: multiplies by the scale where the division belongs.
pixelsToRealUnitsMultiplying(pixels, scaleInfo) == FlMul(pixels, scaleInfo.pixelsPerMillimeter)

\* return pixels / scaleInfo.pixelsPerMillimeter
pixelsToRealUnitsFl(pixels, scaleInfo) == FlDiv(pixels, scaleInfo.pixelsPerMillimeter)

\* ------------------------------------------------------------ the engine
CLEARANCE_MM == 0

\* Variant: `options.clearance || 1000`, a default of 1000 mm that also
\* replaces a clearance passed as 0.
EffectiveClearanceOrDefault(opts) ==
  IF opts.clearance = Omitted \/ opts.clearance = 0 THEN 1000 ELSE opts.clearance

\* const { scaleInfo, clearance = CLEARANCE_MM } = options
EffectiveClearance(opts) ==
  IF opts.clearance = Omitted THEN CLEARANCE_MM ELSE opts.clearance

\* Variant: moves the origin in by the clearance but keeps the full size.
UsableAreaOriginOnly(a, clearance) ==
  [ x |-> a.x + clearance,
    y |-> a.y + clearance,
    width |-> a.width,
    height |-> a.height ]

UsableArea(a, clearance) ==
  [ x |-> a.x + clearance,
    y |-> a.y + clearance,
    width |-> a.width - (2 * clearance),
    height |-> a.height - (2 * clearance) ]

\* Variant: ascending comparator, areaA - areaB.
CompareFixturesAscending(a, b) == (a.width * a.height) - (b.width * b.height)

\* The comparator of the sort: (a, b) => areaB - areaA.
CompareFixtures(a, b) == (b.width * b.height) - (a.width * a.height)

\* Array.prototype.sort is stable: f goes behind every element it does not
\* have to precede (comparator <= 0), before the first one it must precede.
RECURSIVE InsertSorted(_, _)
InsertSorted(s, f) ==
  IF s = << >> THEN << f >>
  ELSE IF CompareFixtures(Head(s), f) <= 0
       THEN << Head(s) >> \o InsertSorted(Tail(s), f)
       ELSE << f >> \o s

RECURSIVE SortFixtures(_)
SortFixtures(fs) ==
  IF fs = << >> THEN << >>
  ELSE InsertSorted(SortFixtures(SubSeq(fs, 1, Len(fs) - 1)), fs[Len(fs)])

\* Variant: `fixtures.sort(...)`, the argument itself is sorted.
FixturesSortedInPlace(fs) == SortFixtures(fs)

\* What the caller's array holds after `[...fixtures].sort(...)`: the sort
\* works on a copy, the argument keeps its order.
FixturesAfterSort(fs) == fs

\* Variant: the occupancy list outlives the call, the rectangles placed by the
\* previous call are still in it.
SeedOccupiedKeepsPrevious(existing, scaleInfo) ==
  [ i \in 1..Len(existing) |->
      [ x |-> existing[i].position.x,
        y |-> existing[i].position.y,
        width |-> existing[i].width * scaleInfo.pixelsPerMillimeter,
        height |-> existing[i].height * scaleInfo.pixelsPerMillimeter ] ]
  \o
  [ i \in 1..Len(prevResult) |->
      [ x |-> prevResult[i].position.x,
        y |-> prevResult[i].position.y,
        width |-> (IF prevResult[i].rotation = 90 THEN prevResult[i].height
                   ELSE prevResult[i].width) * scaleInfo.pixelsPerMillimeter,
        height |-> (IF prevResult[i].rotation = 90 THEN prevResult[i].width
                    ELSE prevResult[i].height) * scaleInfo.pixelsPerMillimeter ] ]

\* existingFixtures.forEach(... occupiedSpaces.push(...))
SeedOccupied(existing, scaleInfo) ==
  [ i \in 1..Len(existing) |->
      [ x |-> existing[i].position.x,
        y |-> existing[i].position.y,
        width |-> existing[i].width * scaleInfo.pixelsPerMillimeter,
        height |-> existing[i].height * scaleInfo.pixelsPerMillimeter ] ]

\* Variant: the rotated orientation is listed first.
OrientationsRotatedFirst(fixture, scaleInfo) ==
  LET fixtureWidthPx == fixture.width * scaleInfo.pixelsPerMillimeter
      fixtureHeightPx == fixture.height * scaleInfo.pixelsPerMillimeter
  IN << [width |-> fixtureHeightPx, height |-> fixtureWidthPx, rotation |-> 90],
        [width |-> fixtureWidthPx, height |-> fixtureHeightPx, rotation |-> 0] >>

Orientations(fixture, scaleInfo) ==
  LET fixtureWidthPx == fixture.width * scaleInfo.pixelsPerMillimeter
      fixtureHeightPx == fixture.height * scaleInfo.pixelsPerMillimeter
  IN << [width |-> fixtureWidthPx, height |-> fixtureHeightPx, rotation |-> 0],
        [width |-> fixtureHeightPx, height |-> fixtureWidthPx, rotation |-> 90] >>

UsableAreaPx(ua, scaleInfo) ==
  [ x |-> realUnitsToPixels(ua.x, scaleInfo),
    y |-> realUnitsToPixels(ua.y, scaleInfo),
    width |-> realUnitsToPixels(ua.width, scaleInfo),
    height |-> realUnitsToPixels(ua.height, scaleInfo) ]

\* Variant: each dimension is compared with the other axis of the usable area.
TooLargeSwappedAxes(orientation, uaPx) ==
  orientation.width > uaPx.height \/ orientation.height > uaPx.width

TooLarge(orientation, uaPx) ==
  orientation.width > uaPx.width \/ orientation.height > uaPx.height

\* ------------------------------------------------------- findBestPosition
\* The `null` of `Position | null`.
NoPosition == [null |-> TRUE]

\* Variant: tests whether the candidate's top-left corner lies in the occupied
\* rectangle, instead of whether the two rectangles intersect.
OverlapsCornerOnly(x, y, width, height, occupied) ==
  /\ x >= occupied.x
  /\ x < occupied.x + occupied.width
  /\ y >= occupied.y
  /\ y < occupied.y + occupied.height

\* The callback of occupiedSpaces.some(...).
Overlaps(x, y, width, height, occupied) ==
  ~ ( x + width <= occupied.x
      \/ x >= occupied.x + occupied.width
      \/ y + height <= occupied.y
      \/ y >= occupied.y + occupied.height )

\* Variant: only the first rectangle of the occupancy list is tested.
OverlapsFirst(x, y, width, height, occ) ==
  Len(occ) > 0 /\ Overlaps(x, y, width, height, occ[1])

OverlapsAny(x, y, width, height, occ) ==
  \E i \in 1..Len(occ) : Overlaps(x, y, width, height, occ[i])

\* Inner loop: for (x = ...; x + width <= usable.x + usable.width; x += step)
RECURSIVE ScanRow(_, _, _, _, _, _, _)
ScanRow(x, y, width, height, ua, occ, step) ==
  IF ~ (x + width <= ua.x + ua.width) THEN NoPosition
  ELSE IF x + width > ua.x + ua.width \/ y + height > ua.y + ua.height
       THEN ScanRow(x + step, y, width, height, ua, occ, step)
       ELSE IF ~ OverlapsAny(x, y, width, height, occ)
            THEN [x |-> x, y |-> y]
            ELSE ScanRow(x + step, y, width, height, ua, occ, step)

\* Outer loop: for (y = ...; y + height <= usable.y + usable.height; y += step)
RECURSIVE ScanGrid(_, _, _, _, _, _)
ScanGrid(y, width, height, ua, occ, step) ==
  IF ~ (y + height <= ua.y + ua.height) THEN NoPosition
  ELSE LET found == ScanRow(ua.x, y, width, height, ua, occ, step)
       IN IF found # NoPosition THEN found
          ELSE ScanGrid(y + step, width, height, ua, occ, step)

\* Variant: the step is not capped at 100.
CoarseStepUncapped(width) == Max(10, width \div 10)

\* Math.max(10, Math.min(100, width / 10)): the widths of the model are below
\* 100 or multiples of 20, for which width / 10 and step / 2 are whole numbers.
CoarseStep(width) == Max(10, Min(100, width \div 10))

\* Variant: the second pass always steps by 5.
FineStepAlwaysFive(step) == 5

\* Math.max(5, step / 2)
FineStep(step) == Max(5, step \div 2)

\* Variant: gives up after the coarse pass.
findBestPositionCoarseOnly(width, height, ua, occ) ==
  ScanGrid(ua.y, width, height, ua, occ, CoarseStep(width))

findBestPosition(width, height, ua, occ) ==
  LET step == CoarseStep(width)
      coarse == ScanGrid(ua.y, width, height, ua, occ, step)
  IN IF coarse # NoPosition THEN coarse
     ELSE ScanGrid(ua.y, width, height, ua, occ, FineStep(step))

\* ------------------------------------------------------------------ actions
\* Variant: the record keeps the size of the orientation it was placed in,
\* converted back to millimeters.
PlacedFixtureWithOrientationSize(fixture, newId, position, orientation) ==
  [ id |-> newId, name |-> fixture.name,
    width |-> (IF orientation.rotation = 90 THEN fixture.height ELSE fixture.width),
    height |-> (IF orientation.rotation = 90 THEN fixture.width ELSE fixture.height),
    position |-> position, rotation |-> orientation.rotation ]

\* { ...fixture, id: `auto-...`, position, rotation: orientation.rotation }
PlacedFixture(fixture, newId, position, orientation) ==
  [ id |-> newId, name |-> fixture.name, width |-> fixture.width,
    height |-> fixture.height, position |-> position,
    rotation |-> orientation.rotation ]

StripId(placed) ==
  [ i \in 1..Len(placed) |->
      [ name |-> placed[i].name, width |-> placed[i].width,
        height |-> placed[i].height, position |-> placed[i].position,
        rotation |-> placed[i].rotation ] ]

Arguments == [ area |-> area, fixtures |-> fixtures,
               existingFixtures |-> existingFixtures, options |-> options ]

\* ------------------------------------------------------------ the calibrator
\* ---- exact rationals [n, d], d > 0, in lowest terms
Abs(x) == IF x < 0 THEN 0 - x ELSE x

RECURSIVE GCD(_, _)
GCD(a, b) == IF b = 0 THEN a ELSE GCD(b, a % b)

Rat(n, d) ==
  LET g == GCD(Abs(n), Abs(d))
      sn == IF d < 0 THEN 0 - n ELSE n
  IN [ n |-> sn \div g, d |-> Abs(d) \div g ]

RInt(k) == [ n |-> k, d |-> 1 ]

RAdd(a, b) ==
  LET g == GCD(a.d, b.d)
  IN Rat(a.n * (b.d \div g) + b.n * (a.d \div g), (a.d \div g) * b.d)

RSub(a, b) == RAdd(a, [ n |-> 0 - b.n, d |-> b.d ])

RAbs(a) == [ n |-> Abs(a.n), d |-> a.d ]

RMul(a, b) ==
  LET g1 == GCD(Abs(a.n), b.d)
      g2 == GCD(Abs(b.n), a.d)
  IN Rat((a.n \div g1) * (b.n \div g2), (a.d \div g2) * (b.d \div g1))

\* a / b, for b # 0.
RDiv(a, b) == RMul(a, Rat(b.d, b.n))

\* a < b
RLt(a, b) ==
  LET g == GCD(a.d, b.d)
  IN a.n * (b.d \div g) < b.n * (a.d \div g)

\* scales.reduce((sum, s) => sum + s, 0)
RECURSIVE RSum(_)
RSum(xs) == IF xs = << >> THEN RInt(0) ELSE RAdd(RSum(SubSeq(xs, 1, Len(xs) - 1)), xs[Len(xs)])

\* Math.max(...xs), for a non-empty xs.
RECURSIVE RMaxOf(_)
RMaxOf(xs) ==
  IF Len(xs) = 1 THEN xs[1]
  ELSE LET m == RMaxOf(SubSeq(xs, 1, Len(xs) - 1))
       IN IF RLt(m, xs[Len(xs)]) THEN xs[Len(xs)] ELSE m

\* sum / length, for a non-empty xs.
Mean(xs) == RDiv(RSum(xs), RInt(Len(xs)))

\* null, where a number can stand.
Null == [ null |-> TRUE ]

\* inconsistentLineIndex: null.
NullIndex == -1

\* The largest r in lo..hi with r * r <= n, by bisection.
RECURSIVE SqrtFloor(_, _, _)
SqrtFloor(n, lo, hi) ==
  IF lo >= hi THEN lo
  ELSE LET mid == (lo + hi + 1) \div 2
       IN IF mid * mid <= n THEN SqrtFloor(n, mid, hi) ELSE SqrtFloor(n, lo, mid - 1)

\* Math.sqrt(Math.pow(end.x - start.x, 2) + Math.pow(end.y - start.y, 2)),
\* in eighths.
calculateLineLength(start, end) ==
  LET dx == Abs(end.x - start.x)
      dy == Abs(end.y - start.y)
  IN Rat(SqrtFloor(64 * (dx * dx + dy * dy), 0, 8 * (dx + dy)), 8)

\* pixelLength / line.realLength, the pixel length taken from the end points.
LineScale(line) == RDiv(calculateLineLength(line.start, line.end), RInt(line.realLength))

LineScales(dimensionLines) ==
  [ i \in 1..Len(dimensionLines) |-> LineScale(dimensionLines[i]) ]

\* Variant: the scale of the last line alone.
calculateScaleFromLinesLastOnly(dimensionLines) ==
  IF Len(dimensionLines) = 0 THEN Null
  ELSE LineScale(dimensionLines[Len(dimensionLines)])

calculateScaleFromLines(dimensionLines) ==
  IF Len(dimensionLines) = 0 THEN Null
  ELSE Mean(LineScales(dimensionLines))

\* Variant: dx >= dy, a tie counted as horizontal.
IsHorizontalOrTie(line) ==
  Abs(line.end.x - line.start.x) >= Abs(line.end.y - line.start.y)

\* if (dx > dy) horizontalScales.push(scale) else verticalScales.push(scale)
IsHorizontal(line) ==
  Abs(line.end.x - line.start.x) > Abs(line.end.y - line.start.y)

\* The scales of the lines of one class, in the order of the lines.
RECURSIVE ClassScales(_, _)
ClassScales(dimensionLines, horizontal) ==
  IF dimensionLines = << >> THEN << >>
  ELSE LET init == ClassScales(SubSeq(dimensionLines, 1, Len(dimensionLines) - 1), horizontal)
           line == dimensionLines[Len(dimensionLines)]
       IN IF IsHorizontal(line) = horizontal THEN Append(init, LineScale(line)) ELSE init

\* (diff / avg) * 100
MismatchPercent(s1, s2) ==
  RMul(RDiv(RAbs(RSub(s1, s2)), RDiv(RAdd(s1, s2), RInt(2))), RInt(100))

calculateSeparateScales(dimensionLines) ==
  IF Len(dimensionLines) = 0
  THEN [ avgScale |-> RInt(0), scaleX |-> Null, scaleY |-> Null, mismatchPercent |-> Null ]
  ELSE LET horizontalScales == ClassScales(dimensionLines, TRUE)
           verticalScales == ClassScales(dimensionLines, FALSE)
           scaleX == IF Len(horizontalScales) > 0 THEN Mean(horizontalScales) ELSE Null
           scaleY == IF Len(verticalScales) > 0 THEN Mean(verticalScales) ELSE Null
       IN [ avgScale |-> Mean(LineScales(dimensionLines)),
            scaleX |-> scaleX,
            scaleY |-> scaleY,
            mismatchPercent |->
              IF scaleX # Null /\ scaleY # Null THEN MismatchPercent(scaleX, scaleY) ELSE Null ]

\* Variant: mismatchPercent >= 5.
PairMismatchTooLargeInclusive(mismatchPercent) == ~ RLt(mismatchPercent, RInt(5))

\* if (mismatchPercent > 5)
PairMismatchTooLarge(mismatchPercent) == RLt(RInt(5), mismatchPercent)

\* Variant: maxMismatchPercent >= 10.
MaxMismatchTooLargeInclusive(maxMismatchPercent) == ~ RLt(maxMismatchPercent, RInt(10))

\* if (maxMismatchPercent > 10)
MaxMismatchTooLarge(maxMismatchPercent) == RLt(RInt(10), maxMismatchPercent)

\* deviations.indexOf(maxDeviation): the first index holding the value, from 0.
IndexOf(xs, x) ==
  (CHOOSE i \in 1..Len(xs) : xs[i] = x /\ \A j \in 1..(i - 1) : xs[j] # x) - 1

\* The messages, without the formatted percentage.
validateDimensionLines(dimensionLines) ==
  IF Len(dimensionLines) < 2
  THEN [ isValid |-> TRUE, inconsistentLineIndex |-> NullIndex,
         mismatchPercent |-> Null, message |-> "null" ]
  ELSE
    LET lineScales == LineScales(dimensionLines)
    IN IF Len(dimensionLines) = 2
       THEN
         LET scale1 == lineScales[1]
             scale2 == lineScales[2]
             avgScale == RDiv(RAdd(scale1, scale2), RInt(2))
             diff == RAbs(RSub(scale1, scale2))
             mismatchPercent == RMul(RDiv(diff, avgScale), RInt(100))
             dev1 == RAbs(RSub(scale1, avgScale))
             dev2 == RAbs(RSub(scale2, avgScale))
             inconsistentIndex == IF RLt(dev2, dev1) THEN 0 ELSE 1
         IN IF PairMismatchTooLarge(mismatchPercent)
            THEN [ isValid |-> FALSE, inconsistentLineIndex |-> inconsistentIndex,
                   mismatchPercent |-> mismatchPercent,
                   message |-> "Line appears to be incorrect (difference)" ]
            ELSE [ isValid |-> TRUE, inconsistentLineIndex |-> NullIndex,
                   mismatchPercent |-> mismatchPercent,
                   message |-> IF RLt(RInt(1), mismatchPercent)
                               THEN "Lines are consistent (difference)"
                               ELSE "Lines are consistent" ]
       ELSE
         LET avgScale == Mean(lineScales)
             deviations == [ i \in 1..Len(lineScales) |-> RAbs(RSub(lineScales[i], avgScale)) ]
             maxDeviation == RMaxOf(deviations)
             maxDeviationIndex == IndexOf(deviations, maxDeviation)
             maxMismatchPercent == RMul(RDiv(maxDeviation, avgScale), RInt(100))
         IN IF MaxMismatchTooLarge(maxMismatchPercent)
            THEN [ isValid |-> FALSE, inconsistentLineIndex |-> maxDeviationIndex,
                   mismatchPercent |-> maxMismatchPercent,
                   message |-> "Line appears to be incorrect (deviation from average)" ]
            ELSE [ isValid |-> TRUE, inconsistentLineIndex |-> NullIndex,
                   mismatchPercent |-> maxMismatchPercent,
                   message |-> IF RLt(RInt(1), maxMismatchPercent)
                               THEN "All lines are consistent (max deviation)"
                               ELSE "All lines are consistent" ]

\* Reference lines as DimensionLineTool stores them (pixel coordinates on the
\* displayed image, realLength in mm, the displayed image size at drawing time).
Line(id, x1, y1, x2, y2, realLength, imageWidth, imageHeight) ==
  [ id |-> id,
    start |-> [x |-> x1, y |-> y1],
    end |-> [x |-> x2, y |-> y2],
    realLength |-> realLength,
    pixelLength |-> calculateLineLength([x |-> x1, y |-> y1], [x |-> x2, y |-> y2]),
    imageWidth |-> imageWidth,
    imageHeight |-> imageHeight ]

\* Scales: 1, 5/4, 1, 25/24, 113/100 (a diagonal), 3/4, 41/39, 22/19.
LineCatalogue ==
  { Line("dim-1", 0, 0, 100, 0, 100, 200, 100),
    Line("dim-2", 0, 0, 0, 100, 80, 200, 100),
    Line("dim-3", 0, 0, 300, 0, 300, 400, 200),
    Line("dim-4", 50, 40, 10, 10, 48, 200, 100),
    Line("dim-5", 0, 0, 20, 20, 25, 400, 200),
    Line("dim-6", 0, 90, 0, 15, 100, 200, 100),
    Line("dim-7", 0, 0, 41, 0, 39, 200, 100),
    Line("dim-8", 0, 0, 0, 22, 19, 400, 200) }

\* The calibrator has not been called.
CalibratorIdle ==
  /\ calLines = << >>
  /\ calScale = Null
  /\ calSeparate = [ avgScale |-> RInt(0), scaleX |-> Null, scaleY |-> Null,
                     mismatchPercent |-> Null ]
  /\ calValidation = [ isValid |-> TRUE, inconsistentLineIndex |-> NullIndex,
                       mismatchPercent |-> Null, message |-> "null" ]
  /\ calCalled = FALSE

\* -------------------------------------------------------- App: state, history
\* useState<FloorPlanState>({imageUrl: null, scaleInfo: null, dimensionLines: [], ...})
InitialState ==
  [ imageUrl |-> "null", scaleInfo |-> Null, dimensionLines |-> << >>,
    fixtures |-> << >>, isDrawingDimension |-> FALSE ]

\* Variant: emits only while the validation reports the lines valid.
ShouldEmitWhenValid(dimensionLines) ==
  /\ calculateScaleFromLines(dimensionLines) # Null
  /\ calculateScaleFromLines(dimensionLines).n # 0
  /\ Len(dimensionLines) > 0
  /\ validateDimensionLines(dimensionLines).isValid

\* if (pixelsPerMillimeter && dimensionLines.length > 0)
ShouldEmit(dimensionLines) ==
  /\ calculateScaleFromLines(dimensionLines) # Null
  /\ calculateScaleFromLines(dimensionLines).n # 0
  /\ Len(dimensionLines) > 0

\* Variant: the reference frame of the first line.
DisplayedSizeOfFirstLine(dimensionLines, imageWidth, imageHeight) ==
  LET firstLine == dimensionLines[1]
  IN [ width |-> IF firstLine.imageWidth # 0 THEN firstLine.imageWidth ELSE imageWidth,
       height |-> IF firstLine.imageHeight # 0 THEN firstLine.imageHeight ELSE imageHeight ]

\* lastLine?.imageWidth || imageWidth, lastLine?.imageHeight || imageHeight
DisplayedSize(dimensionLines, imageWidth, imageHeight) ==
  LET lastLine == dimensionLines[Len(dimensionLines)]
  IN [ width |-> IF lastLine.imageWidth # 0 THEN lastLine.imageWidth ELSE imageWidth,
       height |-> IF lastLine.imageHeight # 0 THEN lastLine.imageHeight ELSE imageHeight ]

\* The ScaleInfo the effect hands to onScaleSet; the props imageWidth and
\* imageHeight are imageDimensions?.width || 0 and imageDimensions?.height || 0.
EmittedScaleInfo(dimensionLines, dims) ==
  LET size == DisplayedSize(dimensionLines,
                            IF dims = Null THEN 0 ELSE dims.width,
                            IF dims = Null THEN 0 ELSE dims.height)
  IN [ imageWidth |-> size.width,
       imageHeight |-> size.height,
       pixelsPerMillimeter |-> calculateScaleFromLines(dimensionLines),
       unit |-> "millimeters" ]

\* saveToHistory(newState): the history, its index and the flag afterwards.
saveToHistory(history, index, isUndoRedo, newState) ==
  IF isUndoRedo
  THEN [ history |-> history, index |-> index, isUndoRedo |-> FALSE ]
  ELSE LET kept == IF index < Len(history) - 1 THEN SubSeq(history, 1, index + 1) ELSE history
           pushed == Append(kept, newState)
       IN IF Len(pushed) > 50
          THEN [ history |-> Tail(pushed), index |-> Len(pushed) - 2, isUndoRedo |-> FALSE ]
          ELSE [ history |-> pushed, index |-> Len(pushed) - 1, isUndoRedo |-> FALSE ]

\* The application as mounted, nothing uploaded.
AppIdle ==
  /\ state = InitialState
  /\ imageDimensions = Null
  /\ historyRef = << InitialState >>
  /\ historyIndexRef = 0
  /\ isUndoRedoRef = FALSE
  /\ justEmitted = FALSE

\* ---- the two-line branch of validateDimensionLines on floating-point numbers
\* The constants 100 and 5, rounded to the significand.
Hundred == FlRound(100, 1, 0)
Five == FlRound(5, 1, 0)

\* lineScales[i] = pixelLength / line.realLength
LineScaleFl(line) == FlDiv(line.pixelLength, line.realLength)

\* if (dimensionLines.length === 2) { ... }: the result with the two
\* deviations it compares.
validateDimensionLinesFl(dimensionLines) ==
  LET scale1 == LineScaleFl(dimensionLines[1])
      scale2 == LineScaleFl(dimensionLines[2])
      avgScale == FlHalf(FlAdd(scale1, scale2))
      diff == FlAbsDiff(scale1, scale2)
      mismatchPercent == IF diff = FlZero THEN FlZero
                         ELSE FlMul(FlDiv(diff, avgScale), Hundred)
      dev1 == FlAbsDiff(scale1, avgScale)
      dev2 == FlAbsDiff(scale2, avgScale)
      inconsistentIndex == IF FlGt(dev1, dev2) THEN 0 ELSE 1
  IN IF FlGt(mismatchPercent, Five)
     THEN [ isValid |-> FALSE, inconsistentLineIndex |-> inconsistentIndex,
            mismatchPercent |-> mismatchPercent, dev1 |-> dev1, dev2 |-> dev2 ]
     ELSE [ isValid |-> TRUE, inconsistentLineIndex |-> NullIndex,
            mismatchPercent |-> mismatchPercent, dev1 |-> dev1, dev2 |-> dev2 ]

\* The two-line validation has not been called.
DeviationIdle ==
  /\ devLines = << >>
  /\ devValidation = Null
  /\ devCalled = FALSE

\* findBestPosition has not been called.
SearchIdle ==
  /\ findArgs = Null
  /\ findResult = NoPosition
  /\ findCalled = FALSE

\* ------------------------------------------------------- useCustomFixtures
\* A key left out of an object, and what reading it gives.
Undefined == "undefined"

FixtureKeys == { "id", "name", "width", "height", "group" }

\* JSON.stringify of one fixture: a key whose value is undefined is left out.
StringifyFixture(f) ==
  [ k \in (IF f.group = Undefined THEN FixtureKeys \ {"group"} ELSE FixtureKeys) |-> f[k] ]

\* JSON.stringify(customFixtures)
JSONStringify(list) == [ i \in 1..Len(list) |-> StringifyFixture(list[i]) ]

\* JSON.parse(stored): a key that is not in the text reads as undefined.
JSONParse(text) ==
  [ i \in 1..Len(text) |->
      [ id |-> text[i]["id"], name |-> text[i]["name"], width |-> text[i]["width"],
        height |-> text[i]["height"],
        group |-> IF "group" \in DOMAIN text[i] THEN text[i]["group"] ELSE Undefined ] ]

\* localStorage.getItem(STORAGE_KEY): null, or the text stored.
NoEntry == [ present |-> FALSE ]
Entry(text) == [ present |-> TRUE, text |-> text ]

\* Variant: the effect writes the list of the first render.
EffectValueOfFirstRender(rendered) == Entry(JSONStringify(<< >>))

\* localStorage.setItem(STORAGE_KEY, JSON.stringify(customFixtures))
EffectValue(rendered) == Entry(JSONStringify(rendered))

\* One queued setCustomFixtures call applied to the previous list.
ApplyUpdate(prev, u) ==
  CASE u.op = "set" -> u.list
    [] u.op = "append" -> prev \o u.list
    [] u.op = "update" ->
         [ i \in 1..Len(prev) |->
             IF prev[i].id = u.id THEN [ prev[i] EXCEPT !.name = u.name ] ELSE prev[i] ]
    [] u.op = "delete" -> SelectSeq(prev, LAMBDA f : f.id # u.id)

RECURSIVE ApplyUpdates(_, _)
ApplyUpdates(prev, us) ==
  IF us = << >> THEN prev ELSE ApplyUpdates(ApplyUpdate(prev, Head(us)), Tail(us))

\* The hook has not been mounted.
HookIdle ==
  /\ customFixtures = << >>
  /\ storageEntry = NoEntry
  /\ pendingUpdates = << >>
  /\ effectsDue = << >>
  /\ mounted = FALSE
  /\ storedAtMount = NoEntry
  /\ opsDone = 0

\* --------------------------------------------------------- DimensionLineTool
\* parseFloat of the text of the number input: NaN for the empty text.
NaN == [ nan |-> TRUE, value |-> 0 ]
Number(v) == [ nan |-> FALSE, value |-> v ]
parseFloat(text) ==
  CASE text = "" -> NaN
    [] text = "0" -> Number(0)
    [] text = "-5" -> Number(-5)
    [] text = "25" -> Number(25)
    [] text = "100" -> Number(100)

\* length > 0: false for NaN.
GreaterThanZero(length) == ~ length.nan /\ length.value > 0

\* pixelLength > 10, the minimum line length of the second click.
LongEnough(pixelLength) == RLt(RInt(10), pixelLength)

\* Variant: a real length of 0 is accepted.
SubmitAcceptsNonNegative(length, startPos, endPos, imageSize) ==
  /\ ~ length.nan
  /\ length.value >= 0
  /\ startPos # Null
  /\ endPos # Null
  /\ imageSize # Null

\* if (length > 0 && startPos && endPos && imageSize)
SubmitAccepts(length, startPos, endPos, imageSize) ==
  /\ GreaterThanZero(length)
  /\ startPos # Null
  /\ endPos # Null
  /\ imageSize # Null

\* useState(null), useState(''), useState(false)
ToolInitialState ==
  [ startPos |-> Null, endPos |-> Null, realLength |-> "", isInputVisible |-> FALSE,
    imageSize |-> Null ]

\* The tool is not rendered.
ToolIdle ==
  /\ lineTool = ToolInitialState
  /\ createdLines = << >>

LaterIdle ==
  /\ DeviationIdle
  /\ SearchIdle
  /\ HookIdle
  /\ ToolIdle

\* The round trip has not been made.
RoundTripIdle ==
  /\ rtValue = Fl(MinMantissa, 0)
  /\ rtScale = [ imageWidth |-> 200, imageHeight |-> 100,
                 pixelsPerMillimeter |-> Fl(MinMantissa, 0), unit |-> "millimeters" ]
  /\ rtThrough = Fl(MinMantissa, 0)
  /\ rtBack = Fl(MinMantissa, 0)
  /\ rtDirection = "none"

Init ==
  /\ pc = "idle"
  /\ area \in AreaChoices
  /\ fixtures \in InjSeqs(FixtureCatalogue, MaxFixtures)
  /\ existingFixtures \in ExistingChoices
  /\ options \in [ scaleInfo : ScaleChoices, clearance : ClearanceChoices ]
  /\ usableArea = UsableArea(area, 0)
  /\ sortedFixtures = << >>
  /\ occupiedSpaces = << >>
  /\ placedFixtures = << >>
  /\ fi = 1
  /\ oi = 1
  /\ result = << >>
  /\ attempts = << >>
  /\ calls = 1
  /\ prevResult = << >>
  /\ snapshot = Arguments
  /\ fitPosition = [x |-> 0, y |-> 0]
  /\ fitSize = [width |-> 0, height |-> 0]
  /\ fitScale = options.scaleInfo
  /\ fitResult = FALSE
  /\ fitCalled = FALSE
  /\ RoundTripIdle
  /\ CalibratorIdle
  /\ AppIdle
  /\ LaterIdle

\* Lines 93-107: the usable area is empty, return [].
EnterAreaTooSmall ==
  /\ pc = "idle"
  /\ LET ua == UsableArea(area, EffectiveClearance(options))
     IN /\ (ua.width <= 0 \/ ua.height <= 0)
        /\ usableArea' = ua
  /\ result' = << >>
  /\ pc' = "done"
  /\ attempts' = << >>
  /\ sortedFixtures' = << >>
  /\ occupiedSpaces' = << >>
  /\ placedFixtures' = << >>
  /\ UNCHANGED << area, fixtures, existingFixtures, options, fi, oi, calls,
                  prevResult, snapshot, outsideEngine >>

\* Lines 93-133: usable area, sorted copy, occupancy list seeded.
Enter ==
  /\ pc = "idle"
  /\ LET ua == UsableArea(area, EffectiveClearance(options))
     IN /\ ~ (ua.width <= 0 \/ ua.height <= 0)
        /\ usableArea' = ua
  /\ sortedFixtures' = SortFixtures(fixtures)
  /\ fixtures' = FixturesAfterSort(fixtures)
  /\ placedFixtures' = << >>
  /\ occupiedSpaces' = SeedOccupied(existingFixtures, options.scaleInfo)
  /\ attempts' = << >>
  /\ fi' = 1
  /\ oi' = 1
  /\ pc' = "loop"
  /\ UNCHANGED << area, existingFixtures, options, result, calls, prevResult, snapshot, outsideEngine >>

Attempt(fixture, orientation, outcome, position) ==
  [ name |-> fixture.name, rotation |-> orientation.rotation, outcome |-> outcome,
    width |-> orientation.width, height |-> orientation.height,
    occLen |-> Len(occupiedSpaces), position |-> position ]

\* Lines 155-159: the orientation is too large for the usable area, continue.
SkipOrientation ==
  /\ pc = "loop"
  /\ fi <= Len(sortedFixtures)
  /\ oi <= 2
  /\ LET fixture == sortedFixtures[fi]
         orientation == Orientations(fixture, options.scaleInfo)[oi]
         uaPx == UsableAreaPx(usableArea, options.scaleInfo)
     IN /\ TooLarge(orientation, uaPx)
        /\ attempts' = Append(attempts, Attempt(fixture, orientation, "skipped", NoPosition))
  /\ oi' = oi + 1
  /\ UNCHANGED << pc, area, fixtures, existingFixtures, options, usableArea,
                  sortedFixtures, occupiedSpaces, placedFixtures, fi, result, calls,
                  prevResult, snapshot, outsideEngine >>

\* Lines 161-196: a position is found, the fixture is placed, break.
PlaceFixture ==
  /\ pc = "loop"
  /\ fi <= Len(sortedFixtures)
  /\ oi <= 2
  /\ LET fixture == sortedFixtures[fi]
         orientation == Orientations(fixture, options.scaleInfo)[oi]
         uaPx == UsableAreaPx(usableArea, options.scaleInfo)
         positionPx == findBestPosition(orientation.width, orientation.height,
                                        uaPx, occupiedSpaces)
     IN /\ ~ TooLarge(orientation, uaPx)
        /\ positionPx # NoPosition
        /\ \E newId \in AutoIds :
             placedFixtures' = Append(placedFixtures,
               PlacedFixture(fixture, newId, positionPx, orientation))
        /\ occupiedSpaces' = Append(occupiedSpaces,
               [ x |-> positionPx.x, y |-> positionPx.y,
                 width |-> orientation.width, height |-> orientation.height ])
        /\ attempts' = Append(attempts, Attempt(fixture, orientation, "placed", positionPx))
  /\ fi' = fi + 1
  /\ oi' = 1
  /\ UNCHANGED << pc, area, fixtures, existingFixtures, options, usableArea,
                  sortedFixtures, result, calls, prevResult, snapshot, outsideEngine >>

\* Lines 161-169: findBestPosition returned null, next orientation.
NoFreePosition ==
  /\ pc = "loop"
  /\ fi <= Len(sortedFixtures)
  /\ oi <= 2
  /\ LET fixture == sortedFixtures[fi]
         orientation == Orientations(fixture, options.scaleInfo)[oi]
         uaPx == UsableAreaPx(usableArea, options.scaleInfo)
         positionPx == findBestPosition(orientation.width, orientation.height,
                                        uaPx, occupiedSpaces)
     IN /\ ~ TooLarge(orientation, uaPx)
        /\ positionPx = NoPosition
        /\ attempts' = Append(attempts, Attempt(fixture, orientation, "nopos", NoPosition))
  /\ oi' = oi + 1
  /\ UNCHANGED << pc, area, fixtures, existingFixtures, options, usableArea,
                  sortedFixtures, occupiedSpaces, placedFixtures, fi, result, calls,
                  prevResult, snapshot, outsideEngine >>

\* Line 197-198: both orientations handled without a placement.
OmitFixture ==
  /\ pc = "loop"
  /\ fi <= Len(sortedFixtures)
  /\ oi > 2
  /\ fi' = fi + 1
  /\ oi' = 1
  /\ UNCHANGED << pc, area, fixtures, existingFixtures, options, usableArea,
                  sortedFixtures, occupiedSpaces, placedFixtures, result, attempts,
                  calls, prevResult, snapshot, outsideEngine >>

\* Line 200: return placedFixtures.
Return ==
  /\ pc = "loop"
  /\ fi > Len(sortedFixtures)
  /\ result' = placedFixtures
  /\ pc' = "done"
  /\ UNCHANGED << area, fixtures, existingFixtures, options, usableArea, sortedFixtures,
                  occupiedSpaces, placedFixtures, fi, oi, attempts, calls, prevResult,
                  snapshot, outsideEngine >>

\* The caller calls a second time with the very same arguments (generatePreview
\* runs again on every change of the selected groups); the locals of the
\* finished call are gone.
SecondCall ==
  /\ pc = "done"
  /\ calls = 1
  /\ calls' = 2
  /\ prevResult' = StripId(result)
  /\ pc' = "idle"
  /\ result' = << >>
  /\ attempts' = << >>
  /\ usableArea' = UsableArea(area, 0)
  /\ sortedFixtures' = << >>
  /\ occupiedSpaces' = << >>
  /\ placedFixtures' = << >>
  /\ fi' = 1
  /\ oi' = 1
  /\ UNCHANGED << area, fixtures, existingFixtures, options, snapshot, outsideEngine >>

Next ==
  \/ EnterAreaTooSmall
  \/ Enter
  \/ SkipOrientation
  \/ PlaceFixture
  \/ NoFreePosition
  \/ OmitFixture
  \/ Return
  \/ SecondCall

Spec == Init /\ [][Next]_vars

\* ------------------------------------------------------------------ checkFit
\* Variant: strict comparisons at the right and bottom edges.
checkFitStrict(fixturePos, fixtureSize, scaleInfo) ==
  /\ fixturePos.x >= 0
  /\ fixturePos.y >= 0
  /\ fixturePos.x + realUnitsToPixels(fixtureSize.width, scaleInfo) < scaleInfo.imageWidth
  /\ fixturePos.y + realUnitsToPixels(fixtureSize.height, scaleInfo) < scaleInfo.imageHeight

checkFit(fixturePos, fixtureSize, scaleInfo) ==
  LET fixtureWidthPx == realUnitsToPixels(fixtureSize.width, scaleInfo)
      fixtureHeightPx == realUnitsToPixels(fixtureSize.height, scaleInfo)
  IN /\ fixturePos.x >= 0
     /\ fixturePos.y >= 0
     /\ fixturePos.x + fixtureWidthPx <= scaleInfo.imageWidth
     /\ fixturePos.y + fixtureHeightPx <= scaleInfo.imageHeight

\* Positions (pixels) and sizes (mm) handed to checkFit: around every edge of
\* the 200 x 100 image of ScaleChoices.
FitPositions == { [x |-> px, y |-> py] : px \in {-1, 0, 1, 100, 101}, py \in {-1, 0, 1, 50, 51} }
\* No caller validates its arguments: sizes with a negative side and scales
\* with pixelsPerMillimeter <= 0 reach checkFit as any other number does.
FitSizes == { [width |-> w, height |-> h] : w \in {-50, 50, 100, 200}, h \in {-25, 25, 50, 100} }
FitScaleChoices ==
  ScaleChoices \cup
  { [imageWidth |-> 200, imageHeight |-> 100, pixelsPerMillimeter |-> p,
     unit |-> "millimeters"] : p \in {-1, 0} }

\* autoPlaceFixtures has not been called.
EngineIdle ==
  /\ pc = "idle"
  /\ area = CHOOSE a \in AreaChoices : a.id = "a1"
  /\ fixtures = << >>
  /\ existingFixtures = << >>
  /\ options = [ scaleInfo |-> CHOOSE sc \in ScaleChoices : sc.pixelsPerMillimeter = 1,
                 clearance |-> Omitted ]
  /\ usableArea = UsableArea(area, 0)
  /\ sortedFixtures = << >>
  /\ occupiedSpaces = << >>
  /\ placedFixtures = << >>
  /\ fi = 1
  /\ oi = 1
  /\ result = << >>
  /\ attempts = << >>
  /\ calls = 1
  /\ prevResult = << >>
  /\ snapshot = Arguments

\* checkFit has not been called.
FitIdle ==
  /\ fitPosition = [x |-> 0, y |-> 0]
  /\ fitSize = [width |-> 0, height |-> 0]
  /\ fitScale = options.scaleInfo
  /\ fitResult = FALSE
  /\ fitCalled = FALSE

InitFit ==
  /\ EngineIdle
  /\ fitPosition = [x |-> 0, y |-> 0]
  /\ fitSize = [width |-> 0, height |-> 0]
  /\ fitScale \in FitScaleChoices
  /\ fitResult = FALSE
  /\ fitCalled = FALSE
  /\ RoundTripIdle
  /\ CalibratorIdle
  /\ AppIdle
  /\ LaterIdle

\* A caller (click on a library fixture, drag of a placed fixture) asks whether
\* a fixture of some size fits at some position.
CheckFitCall ==
  /\ \E pos \in FitPositions, size \in FitSizes :
       /\ fitPosition' = pos
       /\ fitSize' = size
       /\ fitResult' = checkFit(pos, size, fitScale)
  /\ fitCalled' = TRUE
  /\ UNCHANGED << engineVars, laterVars, fitScale, rtVars, calVars, appVars >>

NextFit == CheckFitCall

SpecFit == InitFit /\ [][NextFit]_vars

\* ---------------------------------------------------------------- round trip
\* Millimeter and pixel values, and scales, over every significand.
RtValues == { Fl(m, 0) : m \in Mantissas }
RtScales ==
  { [imageWidth |-> 200, imageHeight |-> 100, pixelsPerMillimeter |-> Fl(m, e),
     unit |-> "millimeters"] : m \in Mantissas, e \in {-7, -3} }

InitRoundTrip ==
  /\ EngineIdle
  /\ FitIdle
  /\ rtValue \in RtValues
  /\ rtScale \in RtScales
  /\ rtThrough = Fl(MinMantissa, 0)
  /\ rtBack = Fl(MinMantissa, 0)
  /\ rtDirection = "none"
  /\ CalibratorIdle
  /\ AppIdle
  /\ LaterIdle

\* pixelsToRealUnits(realUnitsToPixels(mm, scale), scale)
RoundTripFromMm ==
  /\ rtDirection = "none"
  /\ rtThrough' = realUnitsToPixelsFl(rtValue, rtScale)
  /\ rtBack' = pixelsToRealUnitsFl(realUnitsToPixelsFl(rtValue, rtScale), rtScale)
  /\ rtDirection' = "mm"
  /\ UNCHANGED << engineVars, laterVars, fitVars, rtValue, rtScale, calVars, appVars >>

\* realUnitsToPixels(pixelsToRealUnits(px, scale), scale)
RoundTripFromPx ==
  /\ rtDirection = "none"
  /\ rtThrough' = pixelsToRealUnitsFl(rtValue, rtScale)
  /\ rtBack' = realUnitsToPixelsFl(pixelsToRealUnitsFl(rtValue, rtScale), rtScale)
  /\ rtDirection' = "px"
  /\ UNCHANGED << engineVars, laterVars, fitVars, rtValue, rtScale, calVars, appVars >>

NextRoundTrip ==
  \/ RoundTripFromMm
  \/ RoundTripFromPx

SpecRoundTrip == InitRoundTrip /\ [][NextRoundTrip]_vars

\* ------------------------------------------------------ calibrator, as called
InitCalibrator ==
  /\ EngineIdle
  /\ FitIdle
  /\ RoundTripIdle
  /\ calLines \in InjSeqs(LineCatalogue, MaxLines)
  /\ calScale = Null
  /\ calSeparate = [ avgScale |-> RInt(0), scaleX |-> Null, scaleY |-> Null,
                     mismatchPercent |-> Null ]
  /\ calValidation = [ isValid |-> TRUE, inconsistentLineIndex |-> NullIndex,
                       mismatchPercent |-> Null, message |-> "null" ]
  /\ calCalled = FALSE
  /\ AppIdle
  /\ LaterIdle

\* ScaleCalibration renders: the three functions are applied to the lines.
Calibrate ==
  /\ ~ calCalled
  /\ calScale' = calculateScaleFromLines(calLines)
  /\ calSeparate' = calculateSeparateScales(calLines)
  /\ calValidation' = validateDimensionLines(calLines)
  /\ calCalled' = TRUE
  /\ UNCHANGED << engineVars, laterVars, fitVars, rtVars, calLines, appVars >>

NextCalibrator == Calibrate

SpecCalibrator == InitCalibrator /\ [][NextCalibrator]_vars

\* ------------------------------------------------------------ App: handlers
\* Lines the user draws: scales 5/4 and 1, the second on a larger display.
AppLines == { l \in LineCatalogue : l.id \in {"dim-2", "dim-3"} }

InitApp ==
  /\ EngineIdle
  /\ FitIdle
  /\ RoundTripIdle
  /\ CalibratorIdle
  /\ AppIdle
  /\ LaterIdle

\* The state is replaced by newState and newState is saved to the history.
SetAndSave(newState) ==
  LET saved == saveToHistory(historyRef, historyIndexRef, isUndoRedoRef, newState)
  IN /\ Len(historyRef) < MaxHistory
     /\ state' = newState
     /\ historyRef' = saved.history
     /\ historyIndexRef' = saved.index
     /\ isUndoRedoRef' = saved.isUndoRedo

\* ScaleCalibration and DimensionLineTool are rendered.
Calibrating == state.imageUrl # "null" /\ state.isDrawingDimension

NotApp == << engineVars, fitVars, rtVars, calVars, laterVars >>

\* handleImageUpload, from ImageUpload (rendered while there is no image).
UploadImage ==
  /\ state.imageUrl = "null"
  /\ SetAndSave([ imageUrl |-> "blob:1", scaleInfo |-> Null, dimensionLines |-> << >>,
                  fixtures |-> << >>, isDrawingDimension |-> TRUE ])
  /\ imageDimensions' = [ width |-> 200, height |-> 100 ]
  /\ justEmitted' = FALSE
  /\ UNCHANGED NotApp

\* handleDimensionLineComplete, from DimensionLineTool.
AddLine ==
  /\ Calibrating
  /\ Len(state.dimensionLines) < MaxLines
  /\ \E line \in AppLines :
       /\ \A i \in 1..Len(state.dimensionLines) : state.dimensionLines[i].id # line.id
       /\ SetAndSave([ state EXCEPT !.dimensionLines = Append(@, line) ])
  /\ justEmitted' = FALSE
  /\ UNCHANGED << NotApp, imageDimensions >>

\* handleDeleteDimensionLine, from the list of the calibration sidebar.
DeleteLine ==
  /\ Calibrating
  /\ \E i \in 1..Len(state.dimensionLines) :
       SetAndSave([ state EXCEPT
                      !.dimensionLines = SelectSeq(@, LAMBDA l : l.id # state.dimensionLines[i].id),
                      !.scaleInfo = Null ])
  /\ justEmitted' = FALSE
  /\ UNCHANGED << NotApp, imageDimensions >>

\* handleClearAllDimensionLines, from the calibration sidebar.
ClearAllLines ==
  /\ Calibrating
  /\ Len(state.dimensionLines) > 0
  /\ SetAndSave([ state EXCEPT !.dimensionLines = << >>, !.scaleInfo = Null ])
  /\ justEmitted' = FALSE
  /\ UNCHANGED << NotApp, imageDimensions >>

\* The effect of ScaleCalibration: onScaleSet = handleScaleSet.
EmitScale ==
  /\ Calibrating
  /\ ShouldEmit(state.dimensionLines)
  /\ SetAndSave([ state EXCEPT
                    !.scaleInfo = EmittedScaleInfo(state.dimensionLines, imageDimensions) ])
  /\ justEmitted' = TRUE
  /\ UNCHANGED << NotApp, imageDimensions >>

\* handleFinishCalibration: the button shows once there is a line and a scale.
FinishCalibration ==
  /\ Calibrating
  /\ Len(state.dimensionLines) > 0
  /\ state.scaleInfo # Null
  /\ state' = [ state EXCEPT !.isDrawingDimension = FALSE ]
  /\ justEmitted' = FALSE
  /\ UNCHANGED << NotApp, imageDimensions, historyRef, historyIndexRef, isUndoRedoRef >>

\* handleCancelCalibration, from DimensionLineTool.
CancelCalibration ==
  /\ Calibrating
  /\ state' = [ state EXCEPT !.isDrawingDimension = FALSE ]
  /\ justEmitted' = FALSE
  /\ UNCHANGED << NotApp, imageDimensions, historyRef, historyIndexRef, isUndoRedoRef >>

\* handleStartCalibration: "Recalibrate", shown outside calibration with a scale.
StartCalibration ==
  /\ state.imageUrl # "null"
  /\ ~ state.isDrawingDimension
  /\ state.scaleInfo # Null
  /\ state' = [ state EXCEPT !.isDrawingDimension = TRUE, !.scaleInfo = Null ]
  /\ justEmitted' = FALSE
  /\ UNCHANGED << NotApp, imageDimensions, historyRef, historyIndexRef, isUndoRedoRef >>

\* handleUndo (Ctrl+Z).
Undo ==
  /\ historyIndexRef > 0
  /\ historyIndexRef' = historyIndexRef - 1
  /\ isUndoRedoRef' = TRUE
  /\ state' = historyRef[historyIndexRef]
  /\ justEmitted' = FALSE
  /\ UNCHANGED << NotApp, imageDimensions, historyRef >>

\* handleRedo (Ctrl+Y).
Redo ==
  /\ historyIndexRef < Len(historyRef) - 1
  /\ historyIndexRef' = historyIndexRef + 1
  /\ isUndoRedoRef' = TRUE
  /\ state' = historyRef[historyIndexRef + 2]
  /\ justEmitted' = FALSE
  /\ UNCHANGED << NotApp, imageDimensions, historyRef >>

NextApp ==
  \/ UploadImage
  \/ AddLine
  \/ DeleteLine
  \/ ClearAllLines
  \/ EmitScale
  \/ FinishCalibration
  \/ CancelCalibration
  \/ StartCalibration
  \/ Undo
  \/ Redo

SpecApp == InitApp /\ [][NextApp]_vars

\* ------------------------------------------------ manual placement and dragging
\* The library: the catalogue and a fixture wider than the image at any scale.
ManualLibrary ==
  FixtureCatalogue \cup { [id |-> "f9", name |-> "X", width |-> 300, height |-> 20] }

\* The natural size of the uploaded image: the size it was displayed at
\* during calibration, or twice that.
ManualImageDimensions ==
  { [width |-> 200, height |-> 100], [width |-> 400, height |-> 200] }

\* Positions a drag hands to checkFit, in calibration pixels.
ManualDragPositions ==
  { [x |-> px, y |-> py] : px \in {-1, 0, 160, 161}, py \in {0, 80, 81} }

\* Calibration is finished: an image, a scale with a whole pixelsPerMillimeter.
InitManual ==
  /\ EngineIdle
  /\ FitIdle
  /\ RoundTripIdle
  /\ CalibratorIdle
  /\ DeviationIdle /\ SearchIdle /\ HookIdle /\ ToolIdle
  /\ \E s \in ScaleChoices :
       state = [ InitialState EXCEPT !.imageUrl = "blob:1", !.scaleInfo = s ]
  /\ imageDimensions \in ManualImageDimensions
  /\ historyRef = << state >>
  /\ historyIndexRef = 0
  /\ isUndoRedoRef = FALSE
  /\ justEmitted = FALSE

\* Variant: a drag moves the fixture wherever the mouse is.
DragAcceptsAnyPosition(newPosition, draggedFixture, scaleInfo) == TRUE

\* FloorPlanCanvas, handleMouseMove: if (checkFit(newPosition, {...}, scaleInfo))
DragAccepts(newPosition, draggedFixture, scaleInfo) ==
  checkFit(newPosition, [ width |-> draggedFixture.width, height |-> draggedFixture.height ],
           scaleInfo)

\* handleFixtureClick: the centre of the floor plan, else the top-left
\* corner, else nothing; handleFixturePlaced appends and saves.
FixtureClick ==
  /\ state.scaleInfo # Null
  /\ imageDimensions # Null
  /\ Len(state.fixtures) < MaxFixtures
  /\ \E fixture \in ManualLibrary :
       LET size == [ width |-> fixture.width, height |-> fixture.height ]
           centre == [ x |-> imageDimensions.width \div 2, y |-> imageDimensions.height \div 2 ]
           topLeft == [ x |-> 0, y |-> 0 ]
           Placed(position) ==
             [ id |-> fixture.id, name |-> fixture.name, width |-> fixture.width,
               height |-> fixture.height, position |-> position ]
       IN IF checkFit(centre, size, state.scaleInfo)
          THEN SetAndSave([ state EXCEPT !.fixtures = Append(@, Placed(centre)) ])
          ELSE /\ checkFit(topLeft, size, state.scaleInfo)
               /\ SetAndSave([ state EXCEPT !.fixtures = Append(@, Placed(topLeft)) ])
  /\ justEmitted' = FALSE
  /\ UNCHANGED << NotApp, imageDimensions >>

\* handleMouseMove of the canvas while a fixture is dragged, then
\* handleFixtureMove: every fixture with the dragged id takes the position.
FixtureDrag ==
  /\ state.scaleInfo # Null
  /\ \E i \in 1..Len(state.fixtures), newPosition \in ManualDragPositions :
       LET draggedFixture == state.fixtures[i]
       IN /\ DragAccepts(newPosition, draggedFixture, state.scaleInfo)
          /\ draggedFixture.position # newPosition
          /\ state' = [ state EXCEPT !.fixtures =
                          [ j \in 1..Len(@) |->
                              IF @[j].id = draggedFixture.id
                              THEN [ @[j] EXCEPT !.position = newPosition ]
                              ELSE @[j] ] ]
  /\ justEmitted' = FALSE
  /\ UNCHANGED << NotApp, imageDimensions, historyRef, historyIndexRef, isUndoRedoRef >>

NextManual ==
  \/ FixtureClick
  \/ FixtureDrag

SpecManual == InitManual /\ [][NextManual]_vars

\* ------------------------------------------------- successive auto-placements
\* The App runs autoPlaceFixtures from generatePreview with clearance 0 and
\* obstacles state.fixtures; handleConfirmPlacement appends the preview to
\* state.fixtures, and the next preview is generated with that longer list.
ChainExisting == { << >>, << ExistingP >> }

InitChain ==
  /\ pc = "idle"
  /\ area \in AreaChoices
  /\ fixtures \in InjSeqs(FixtureCatalogue, MaxFixtures)
  /\ fixtures # << >>
  /\ existingFixtures \in ChainExisting
  /\ options \in [ scaleInfo : ScaleChoices, clearance : {0} ]
  /\ usableArea = UsableArea(area, 0)
  /\ sortedFixtures = << >>
  /\ occupiedSpaces = << >>
  /\ placedFixtures = << >>
  /\ fi = 1
  /\ oi = 1
  /\ result = << >>
  /\ attempts = << >>
  /\ calls = 1
  /\ prevResult = << >>
  /\ snapshot = Arguments
  /\ FitIdle
  /\ RoundTripIdle
  /\ CalibratorIdle
  /\ AppIdle
  /\ LaterIdle

\* handleConfirmPlacement followed by the next generatePreview: the returned
\* fixtures join state.fixtures, the user selects groups again and the same
\* area, and autoPlaceFixtures is called with the same scaleInfo.
ConfirmPlacement ==
  /\ pc = "done"
  /\ calls = 1
  /\ result # << >>
  /\ existingFixtures' = existingFixtures \o result
  /\ \E fixturesToPlace \in InjSeqs(FixtureCatalogue, MaxFixtures) :
       /\ fixturesToPlace # << >>
       /\ fixtures' = fixturesToPlace
  /\ calls' = 2
  /\ prevResult' = StripId(result)
  /\ pc' = "idle"
  /\ result' = << >>
  /\ attempts' = << >>
  /\ usableArea' = UsableArea(area, 0)
  /\ sortedFixtures' = << >>
  /\ occupiedSpaces' = << >>
  /\ placedFixtures' = << >>
  /\ fi' = 1
  /\ oi' = 1
  /\ UNCHANGED << area, options, snapshot, outsideEngine >>

NextChain ==
  \/ Enter
  \/ SkipOrientation
  \/ PlaceFixture
  \/ NoFreePosition
  \/ OmitFixture
  \/ Return
  \/ ConfirmPlacement

SpecChain == InitChain /\ [][NextChain]_vars

\* --------------------------------------- two-line validation, floating point
\* Lengths of drawn lines (64 to 120 pixels) and entered real lengths
\* (32 to 120 mm), as floats.
DevPixelLengths == { Fl(m, 3) : m \in Mantissas }
DevRealLengths == { Fl(m, e) : m \in Mantissas, e \in {2, 3} }
DevLineChoices == [ pixelLength : DevPixelLengths, realLength : DevRealLengths ]

EarlierIdle == EngineIdle /\ FitIdle /\ RoundTripIdle /\ CalibratorIdle /\ AppIdle

InitDeviation ==
  /\ EarlierIdle
  /\ SearchIdle
  /\ HookIdle
  /\ ToolIdle
  /\ devLines \in [ 1..2 -> DevLineChoices ]
  /\ devValidation = Null
  /\ devCalled = FALSE

ValidateTwoLines ==
  /\ ~ devCalled
  /\ devValidation' = validateDimensionLinesFl(devLines)
  /\ devCalled' = TRUE
  /\ UNCHANGED << engineVars, fitVars, rtVars, calVars, appVars, findVars, hookVars, toolVars, devLines >>

NextDeviation == ValidateTwoLines

SpecDeviation == InitDeviation /\ [][NextDeviation]_vars

\* ----------------------------------------------------- custom fixture library
\* What the forms and importers hand to addFixture and bulkAddFixtures.
NewFixtureChoices ==
  { [name |-> "A", width |-> 40, height |-> 20, group |-> Undefined],
    [name |-> "B", width |-> 20, height |-> 40, group |-> "g1"] }

\* Tokens of the generated ids `custom-${Date.now()}`.
CustomIds == { "custom-1", "custom-2" }

WithId(fixture, newId) ==
  [ id |-> newId, name |-> fixture.name, width |-> fixture.width,
    height |-> fixture.height, group |-> fixture.group ]

\* Lists a previous session can have left in localStorage.
StoredChoices ==
  { << >> } \cup { << WithId(f, "custom-0") >> : f \in NewFixtureChoices }

InitStorage ==
  /\ EarlierIdle
  /\ DeviationIdle
  /\ SearchIdle
  /\ ToolIdle
  /\ customFixtures = << >>
  /\ storageEntry \in { NoEntry } \cup { Entry(JSONStringify(l)) : l \in StoredChoices }
  /\ pendingUpdates = << >>
  /\ effectsDue = << >>
  /\ mounted = FALSE
  /\ storedAtMount = storageEntry
  /\ opsDone = 0

NotHook == << engineVars, fitVars, rtVars, calVars, appVars, devVars, findVars, toolVars >>

\* The first render: useState([]), both effects are scheduled in their order.
Mount ==
  /\ ~ mounted
  /\ mounted' = TRUE
  /\ customFixtures' = << >>
  /\ effectsDue' = << "load", "save" >>
  /\ UNCHANGED << NotHook, storageEntry, pendingUpdates, storedAtMount, opsDone >>

\* Lines 10-19: the effect with no dependencies.
LoadEffect ==
  /\ effectsDue # << >>
  /\ Head(effectsDue) = "load"
  /\ effectsDue' = Tail(effectsDue)
  /\ pendingUpdates' =
       IF storageEntry.present
       THEN Append(pendingUpdates, [ op |-> "set", list |-> JSONParse(storageEntry.text) ])
       ELSE pendingUpdates
  /\ UNCHANGED << NotHook, customFixtures, storageEntry, mounted, storedAtMount, opsDone >>

\* Lines 22-24: the effect that depends on customFixtures.
SaveEffect ==
  /\ effectsDue # << >>
  /\ Head(effectsDue) = "save"
  /\ effectsDue' = Tail(effectsDue)
  /\ storageEntry' = EffectValue(customFixtures)
  /\ UNCHANGED << NotHook, customFixtures, pendingUpdates, mounted, storedAtMount, opsDone >>

\* React renders with the queued updates applied in order; the list is a new
\* array, so the effect that depends on it is scheduled.
Render ==
  /\ mounted
  /\ effectsDue = << >>
  /\ pendingUpdates # << >>
  /\ customFixtures' = ApplyUpdates(customFixtures, pendingUpdates)
  /\ pendingUpdates' = << >>
  /\ effectsDue' = << "save" >>
  /\ UNCHANGED << NotHook, storageEntry, mounted, storedAtMount, opsDone >>

\* A handler of the library is called: events are handled once the effects
\* of the last commit have run.
Operation(update) ==
  /\ mounted
  /\ effectsDue = << >>
  /\ opsDone < MaxOps
  /\ opsDone' = opsDone + 1
  /\ pendingUpdates' = Append(pendingUpdates, update)
  /\ UNCHANGED << NotHook, customFixtures, storageEntry, effectsDue, mounted, storedAtMount >>

addFixture ==
  \E fixture \in NewFixtureChoices, newId \in CustomIds :
    Operation([ op |-> "append", list |-> << WithId(fixture, newId) >> ])

updateFixture ==
  \E id \in CustomIds \cup {"custom-0"} :
    Operation([ op |-> "update", id |-> id, name |-> "Z" ])

deleteFixture ==
  \E id \in CustomIds \cup {"custom-0"} :
    Operation([ op |-> "delete", id |-> id ])

bulkAddFixtures ==
  \E f1 \in NewFixtureChoices, f2 \in NewFixtureChoices :
    Operation([ op |-> "append",
                list |-> << WithId(f1, "custom-1"), WithId(f2, "custom-2") >> ])

NextStorage ==
  \/ Mount
  \/ LoadEffect
  \/ SaveEffect
  \/ Render
  \/ addFixture
  \/ updateFixture
  \/ deleteFixture
  \/ bulkAddFixtures

SpecStorage == InitStorage /\ [][NextStorage]_vars

\* React runs the effects of a commit and renders queued updates; the user
\* may stop calling handlers.
SpecStorageFair ==
  /\ SpecStorage
  /\ WF_vars(Mount)
  /\ WF_vars(LoadEffect)
  /\ WF_vars(SaveEffect)
  /\ WF_vars(Render)

\* ----------------------------------------------------------- findBestPosition
\* Pixel sizes of an orientation: coarse steps 10, 12, 100 and 100 (capped).
\* The small widths are searched in the small areas only.
SearchWidths == { 30, 120, 1000, 1200 }
SearchHeights == { 20, 60 }

SearchAreas ==
  { [x |-> 10, y |-> 20, width |-> 100, height |-> 60],
    [x |-> 0, y |-> 0, width |-> 300, height |-> 60],
    [x |-> 0, y |-> 0, width |-> 1300, height |-> 60] }

Rect(x, y, width, height) == [x |-> x, y |-> y, width |-> width, height |-> height]

\* Rectangles the occupancy list is drawn from, in their order in the list.
SearchObstacles ==
  << Rect(10, 20, 35, 60), Rect(75, 20, 35, 60), Rect(10, 20, 5, 5),
     Rect(0, 0, 50, 60), Rect(1050, 0, 250, 60), Rect(1250, 0, 50, 60),
     Rect(0, 0, 54, 60), Rect(174, 0, 126, 60) >>

SearchOccupancies ==
  { SelectSeq(SearchObstacles, LAMBDA r : r \in S) :
      S \in SUBSET { SearchObstacles[i] : i \in 1..Len(SearchObstacles) } }

InitSearch ==
  /\ EarlierIdle
  /\ DeviationIdle
  /\ HookIdle
  /\ ToolIdle
  /\ findArgs \in [ width : SearchWidths, height : SearchHeights,
                    usableArea : SearchAreas, occupiedSpaces : SearchOccupancies ]
  /\ findArgs.usableArea.width <= 300 \/ findArgs.width >= 1000
  /\ findResult = NoPosition
  /\ findCalled = FALSE

Search ==
  /\ ~ findCalled
  /\ findResult' = findBestPosition(findArgs.width, findArgs.height,
                                    findArgs.usableArea, findArgs.occupiedSpaces)
  /\ findCalled' = TRUE
  /\ UNCHANGED << engineVars, fitVars, rtVars, calVars, appVars, devVars, hookVars, toolVars, findArgs >>

NextSearch == Search

SpecSearch == InitSearch /\ [][NextSearch]_vars

\* ------------------------------------------------------- drawing a reference line
\* Where the user clicks: the first click at the origin, the second at a
\* distance of 0, of exactly 10, of a little over 10, or of 30 pixels.
FirstClicks == { [x |-> 0, y |-> 0] }
SecondClicks == { [x |-> 0, y |-> 0], [x |-> 6, y |-> 8], [x |-> 7, y |-> 8],
                  [x |-> 30, y |-> 0] }

\* What the user types into the number input.
LengthTexts == { "", "0", "-5", "25", "100" }

InitLineTool ==
  /\ EarlierIdle
  /\ DeviationIdle
  /\ SearchIdle
  /\ HookIdle
  /\ ToolIdle

NotTool == << engineVars, fitVars, rtVars, calVars, appVars, devVars, findVars, hookVars >>

\* The image's onLoad: setImageSize(offsetWidth, offsetHeight).
ImageLoad ==
  /\ lineTool.imageSize = Null
  /\ lineTool' = [ lineTool EXCEPT !.imageSize = [ width |-> 200, height |-> 100 ] ]
  /\ UNCHANGED << NotTool, createdLines >>

\* handleClick, first click: the start position.
ClickStart ==
  /\ lineTool.startPos = Null
  /\ \E position \in FirstClicks :
       lineTool' = [ lineTool EXCEPT !.startPos = position, !.endPos = Null ]
  /\ UNCHANGED << NotTool, createdLines >>

\* handleClick, second click: the end position; the form is shown if the
\* line is long enough, else the line is dropped.
ClickEnd ==
  /\ lineTool.startPos # Null
  /\ lineTool.endPos = Null
  /\ \E position \in SecondClicks :
       LET pixelLength == calculateLineLength(lineTool.startPos, position)
       IN lineTool' =
            IF LongEnough(pixelLength)
            THEN [ lineTool EXCEPT !.endPos = position, !.isInputVisible = TRUE ]
            ELSE [ lineTool EXCEPT !.startPos = Null, !.endPos = Null ]
  /\ UNCHANGED << NotTool, createdLines >>

\* onChange of the number input of the form.
TypeLength ==
  /\ lineTool.isInputVisible
  /\ \E text \in LengthTexts :
       /\ text # lineTool.realLength
       /\ lineTool' = [ lineTool EXCEPT !.realLength = text ]
  /\ UNCHANGED << NotTool, createdLines >>

\* handleSubmit with a length it accepts: the line goes to onLineComplete.
SubmitLine ==
  /\ lineTool.isInputVisible
  /\ Len(createdLines) < MaxLines
  /\ LET length == parseFloat(lineTool.realLength)
     IN /\ SubmitAccepts(length, lineTool.startPos, lineTool.endPos, lineTool.imageSize)
        /\ \E id \in { "dim-1" } :
             createdLines' = Append(createdLines,
               [ id |-> id, start |-> lineTool.startPos, end |-> lineTool.endPos,
                 realLength |-> length.value,
                 pixelLength |-> calculateLineLength(lineTool.startPos, lineTool.endPos),
                 imageWidth |-> lineTool.imageSize.width,
                 imageHeight |-> lineTool.imageSize.height ])
  /\ lineTool' = [ lineTool EXCEPT !.startPos = Null, !.endPos = Null,
                                   !.realLength = "", !.isInputVisible = FALSE ]
  /\ UNCHANGED NotTool

\* handleReset, the Cancel button of the form.
ResetLine ==
  /\ lineTool.isInputVisible
  /\ lineTool' = [ lineTool EXCEPT !.startPos = Null, !.endPos = Null,
                                   !.realLength = "", !.isInputVisible = FALSE ]
  /\ UNCHANGED << NotTool, createdLines >>

NextLineTool ==
  \/ ImageLoad
  \/ ClickStart
  \/ ClickEnd
  \/ TypeLength
  \/ SubmitLine
  \/ ResetLine

SpecLineTool == InitLineTool /\ [][NextLineTool]_vars

\* ================================================================ properties
\* Definitions in the claims' own terms, independent of the engine's locals.

\* Two axis-aligned rectangles share interior points.
Intersects(a, b) ==
  /\ a.x < b.x + b.width
  /\ b.x < a.x + a.width
  /\ a.y < b.y + b.height
  /\ b.y < a.y + a.height

PixelsPerMm == options.scaleInfo.pixelsPerMillimeter

\* The rectangle a returned fixture covers: its position and the pixel size
\* of the orientation it was placed in.
PlacedRect(p) ==
  [ x |-> p.position.x,
    y |-> p.position.y,
    width |-> (IF p.rotation = 90 THEN p.height ELSE p.width) * PixelsPerMm,
    height |-> (IF p.rotation = 90 THEN p.width ELSE p.height) * PixelsPerMm ]

\* The rectangle an obstacle is given in the occupancy list.
ObstacleRect(e) ==
  [ x |-> e.position.x,
    y |-> e.position.y,
    width |-> e.width * PixelsPerMm,
    height |-> e.height * PixelsPerMm ]

\* Obstacles first, then the returned fixtures.
FinalOccupancy ==
  [ i \in 1..Len(existingFixtures) |-> ObstacleRect(existingFixtures[i]) ]
    \o [ i \in 1..Len(result) |-> PlacedRect(result[i]) ]

\* The usable area of the claims: the area inset by the clearance (0 when
\* omitted) on all four sides, in pixels.
ClaimClearance == IF options.clearance = Omitted THEN 0 ELSE options.clearance
ClaimUsablePx ==
  [ x |-> (area.x + ClaimClearance) * PixelsPerMm,
    y |-> (area.y + ClaimClearance) * PixelsPerMm,
    width |-> (area.width - 2 * ClaimClearance) * PixelsPerMm,
    height |-> (area.height - 2 * ClaimClearance) * PixelsPerMm ]

\* C1 (as stated): when autoPlaceFixtures has returned, no two distinct
\* rectangles of the final occupancy list (obstacles and newly placed
\* fixtures) intersect.
C1_NoTwoRectanglesIntersect ==
  pc = "done" =>
    \A i, j \in 1..Len(FinalOccupancy) :
      i # j => ~ Intersects(FinalOccupancy[i], FinalOccupancy[j])

\* C1 (amended): when autoPlaceFixtures has returned, no newly placed
\* rectangle intersects any other rectangle of the final occupancy list,
\* obstacle or newly placed; two obstacles intersect only if they already
\* did in the input.
C1_PlacedRectanglesIntersectNothing ==
  pc = "done" =>
    \A i, j \in 1..Len(FinalOccupancy) :
      (i # j /\ (i > Len(existingFixtures) \/ j > Len(existingFixtures)))
        => ~ Intersects(FinalOccupancy[i], FinalOccupancy[j])

\* C1 witness: a call returned two fixtures next to two obstacles.
C1_Witness ==
  /\ pc = "done"
  /\ Len(result) = 2
  /\ Len(existingFixtures) = 2

\* C2: every returned fixture's rectangle lies inside the usable area in
\* pixel space (the area inset by the clearance, converted to pixels).
C2_PlacedInsideUsableArea ==
  pc = "done" =>
    \A i \in 1..Len(result) :
      LET r == PlacedRect(result[i])
      IN /\ ClaimUsablePx.x <= r.x
         /\ ClaimUsablePx.y <= r.y
         /\ r.x + r.width <= ClaimUsablePx.x + ClaimUsablePx.width
         /\ r.y + r.height <= ClaimUsablePx.y + ClaimUsablePx.height

\* C2 witness: with a clearance of 2 mm, a returned fixture reaches exactly
\* the far edge of the usable area.
C2_Witness ==
  /\ pc = "done"
  /\ options.clearance = 2
  /\ \E i \in 1..Len(result) :
       LET r == PlacedRect(result[i])
       IN r.x + r.width = ClaimUsablePx.x + ClaimUsablePx.width

\* The candidate of the argument list with a given name, and its index there.
CandidateNamed(n) == CHOOSE f \in { fixtures[i] : i \in 1..Len(fixtures) } : f.name = n
CandidateIndex(n) == CHOOSE i \in 1..Len(fixtures) : fixtures[i].name = n
FootprintArea(f) == f.width * f.height
AttemptedNames == { attempts[k].name : k \in 1..Len(attempts) }

\* C3: candidates are attempted in descending order of footprint area
\* (width * height in mm), candidates of equal area in their original
\* relative order; every candidate has been attempted when the loop is over;
\* the returned list is ordered by non-increasing footprint area.
C3_LargestFirstStable ==
  /\ \A i, j \in 1..Len(attempts) :
       i < j =>
         LET a == CandidateNamed(attempts[i].name)
             b == CandidateNamed(attempts[j].name)
         IN /\ FootprintArea(a) >= FootprintArea(b)
            /\ (FootprintArea(a) = FootprintArea(b) /\ a.name # b.name)
                 => CandidateIndex(a.name) < CandidateIndex(b.name)
  /\ \A i, j \in 1..Len(placedFixtures) :
       i < j => FootprintArea(placedFixtures[i]) >= FootprintArea(placedFixtures[j])
  /\ (pc = "done" /\ ClaimUsablePx.width > 0 /\ ClaimUsablePx.height > 0)
       => /\ AttemptedNames = { fixtures[i].name : i \in 1..Len(fixtures) }
          /\ \A i, j \in 1..Len(result) :
               i < j => FootprintArea(result[i]) >= FootprintArea(result[j])

\* C3 witness: the smaller candidate came first in the argument list, both
\* were placed, and the larger one is first in the returned list.
C3_Witness ==
  /\ pc = "done"
  /\ Len(fixtures) = 2
  /\ FootprintArea(fixtures[1]) < FootprintArea(fixtures[2])
  /\ Len(result) = 2
  /\ result[1].name = fixtures[2].name

PlacedAttempts == SelectSeq(attempts, LAMBDA a : a.outcome = "placed")

\* C4: for each candidate the unrotated orientation is handled before the
\* rotated one; the rotated one is handled only after the unrotated one was
\* skipped as too large or had no free grid position; a placement ends the
\* candidate's turn, so each candidate is placed at most once, with the
\* rotation of the orientation that succeeded.
C4_UnrotatedFirstOnePlacement ==
  /\ \A k \in 1..Len(attempts) :
       LET a == attempts[k]
       IN /\ a.rotation \in {0, 90}
          /\ a.rotation = 90 =>
               /\ k > 1
               /\ attempts[k - 1].name = a.name
               /\ attempts[k - 1].rotation = 0
               /\ attempts[k - 1].outcome \in {"skipped", "nopos"}
          /\ a.rotation = 0 => (k = 1 \/ attempts[k - 1].name # a.name)
  /\ Len(placedFixtures) = Len(PlacedAttempts)
  /\ \A i \in 1..Len(placedFixtures) :
       /\ placedFixtures[i].name = PlacedAttempts[i].name
       /\ placedFixtures[i].rotation = PlacedAttempts[i].rotation
  /\ \A i, j \in 1..Len(placedFixtures) :
       i # j => placedFixtures[i].name # placedFixtures[j].name
  /\ pc = "done" =>
       \A i \in 1..Len(result) :
         result[i].rotation = 90 =>
           \E k \in 1..Len(attempts) :
             /\ attempts[k].name = result[i].name
             /\ attempts[k].rotation = 0
             /\ attempts[k].outcome \in {"skipped", "nopos"}

\* C4 witness: a fixture was returned with rotation 90 after its unrotated
\* orientation fitted the usable area but found no free grid position.
C4_Witness ==
  /\ pc = "done"
  /\ \E i \in 1..Len(result) :
       /\ result[i].rotation = 90
       /\ \E k \in 1..Len(attempts) :
            /\ attempts[k].name = result[i].name
            /\ attempts[k].rotation = 0
            /\ attempts[k].outcome = "nopos"

\* A rectangle of the given size at (x, y) avoids every rectangle of occ.
FreeAt(x, y, width, height, occ) ==
  \A i \in 1..Len(occ) :
    ~ Intersects([x |-> x, y |-> y, width |-> width, height |-> height], occ[i])

\* Some position on the search grid (the usable area's top-left corner plus
\* multiples of the coarse or of the fine step) is inside the usable area and free.
GridFree(width, height, ua, occ) ==
  \E step \in { CoarseStep(width), FineStep(CoarseStep(width)) } :
    \E k \in 0..((ua.width - width) \div step), l \in 0..((ua.height - height) \div step) :
      FreeAt(ua.x + k * step, ua.y + l * step, width, height, occ)

\* Some position at all (whole pixels) is inside the usable area and free.
AnyFree(width, height, ua, occ) ==
  \E x \in ua.x..(ua.x + ua.width - width), y \in ua.y..(ua.y + ua.height - height) :
    FreeAt(x, y, width, height, occ)

\* The occupancy list as it was when the candidate of that name had its turn.
OccupancyAtTurn(n) ==
  SubSeq(occupiedSpaces, 1,
         attempts[CHOOSE k \in 1..Len(attempts) : attempts[k].name = n].occLen)

Returned(n) == \E j \in 1..Len(result) : result[j].name = n
UsableNonEmpty == ClaimUsablePx.width > 0 /\ ClaimUsablePx.height > 0

\* The case of C5: the unrotated width exceeds the usable width, the height
\* fits the usable height and the usable width.
RotationFallbackCase(f) ==
  /\ UsableNonEmpty
  /\ f.width * PixelsPerMm > ClaimUsablePx.width
  /\ f.height * PixelsPerMm <= ClaimUsablePx.height
  /\ f.height * PixelsPerMm <= ClaimUsablePx.width

\* C5 (as stated): a fixture whose unrotated width exceeds the usable width
\* but whose height does not, while its height fits the usable width, is
\* placed, and with rotation 90.
C5_FallbackFixtureIsPlacedRotated ==
  pc = "done" =>
    \A i \in 1..Len(fixtures) :
      RotationFallbackCase(fixtures[i]) =>
        \E j \in 1..Len(result) :
          result[j].name = fixtures[i].name /\ result[j].rotation = 90

\* C5 (amended): such a fixture is never placed unrotated: if it is returned
\* it has rotation 90; and it is returned exactly when its width also fits
\* the usable height and a free grid position exists for the rotated
\* orientation at its turn.
C5_FallbackFixtureOnlyRotated ==
  pc = "done" =>
    \A i \in 1..Len(fixtures) :
      LET f == fixtures[i] IN
      RotationFallbackCase(f) =>
        /\ \A j \in 1..Len(result) : result[j].name = f.name => result[j].rotation = 90
        /\ Returned(f.name) <=>
             /\ f.width * PixelsPerMm <= ClaimUsablePx.height
             /\ GridFree(f.height * PixelsPerMm, f.width * PixelsPerMm,
                         ClaimUsablePx, OccupancyAtTurn(f.name))

\* C5 witness: such a fixture was returned with rotation 90.
C5_Witness ==
  /\ pc = "done"
  /\ \E i \in 1..Len(fixtures) :
       /\ RotationFallbackCase(fixtures[i])
       /\ \E j \in 1..Len(result) :
            result[j].name = fixtures[i].name /\ result[j].rotation = 90

BothTooLarge(f) ==
  /\ (f.width * PixelsPerMm > ClaimUsablePx.width \/ f.height * PixelsPerMm > ClaimUsablePx.height)
  /\ (f.height * PixelsPerMm > ClaimUsablePx.width \/ f.width * PixelsPerMm > ClaimUsablePx.height)

\* C7 (as stated): a candidate is absent from the result only if the usable
\* area is empty, it is too large in both orientations, or at its turn no
\* position at all inside the usable area is free for it in either orientation.
C7_AbsentOnlyIfNoFreePositionAtAll ==
  pc = "done" =>
    \A i \in 1..Len(fixtures) :
      LET f == fixtures[i] IN
      ~ Returned(f.name) =>
        \/ ~ UsableNonEmpty
        \/ BothTooLarge(f)
        \/ /\ ~ AnyFree(f.width * PixelsPerMm, f.height * PixelsPerMm,
                         ClaimUsablePx, OccupancyAtTurn(f.name))
           /\ ~ AnyFree(f.height * PixelsPerMm, f.width * PixelsPerMm,
                         ClaimUsablePx, OccupancyAtTurn(f.name))

\* C7 (amended): a candidate is absent from the result only if the usable
\* area is empty, it is too large in both orientations, or at its turn no
\* position of the search grid is free for it in either orientation; an
\* orientation is skipped only when too large and given up only when no grid
\* position is free.
C7_AbsentOnlyIfNoFreeGridPosition ==
  /\ \A k \in 1..Len(attempts) :
       LET a == attempts[k] IN
       /\ a.outcome = "skipped" =>
            (a.width > ClaimUsablePx.width \/ a.height > ClaimUsablePx.height)
       /\ a.outcome = "nopos" =>
            ~ GridFree(a.width, a.height, ClaimUsablePx,
                       SubSeq(occupiedSpaces, 1, a.occLen))
  /\ pc = "done" =>
       \A i \in 1..Len(fixtures) :
         LET f == fixtures[i] IN
         ~ Returned(f.name) =>
           \/ ~ UsableNonEmpty
           \/ BothTooLarge(f)
           \/ /\ ~ GridFree(f.width * PixelsPerMm, f.height * PixelsPerMm,
                             ClaimUsablePx, OccupancyAtTurn(f.name))
              /\ ~ GridFree(f.height * PixelsPerMm, f.width * PixelsPerMm,
                             ClaimUsablePx, OccupancyAtTurn(f.name))

\* C7 witness: a candidate is absent because the grid search found no position.
C7_Witness ==
  /\ pc = "done"
  /\ \E i \in 1..Len(fixtures) :
       /\ ~ Returned(fixtures[i].name)
       /\ \E k \in 1..Len(attempts) :
            attempts[k].name = fixtures[i].name /\ attempts[k].outcome = "nopos"

\* C8: the call leaves its arguments as they were: the fixtures list and the
\* existingFixtures list keep their elements and their order, and no field
\* of a fixture, of the area or of scaleInfo changes.
C8_ArgumentsUnchanged ==
  /\ fixtures = snapshot.fixtures
  /\ existingFixtures = snapshot.existingFixtures
  /\ area = snapshot.area
  /\ options = snapshot.options

\* C8 witness: a call returned two fixtures after sorting its copy into an
\* order that differs from the order of the argument.
C8_Witness ==
  /\ pc = "done"
  /\ Len(result) = 2
  /\ Len(existingFixtures) > 0
  /\ sortedFixtures # fixtures

FitExactSize ==
  /\ fitSize.width * fitScale.pixelsPerMillimeter = fitScale.imageWidth
  /\ fitSize.height * fitScale.pixelsPerMillimeter = fitScale.imageHeight

\* C10: checkFit returns true exactly when position.x >= 0, position.y >= 0,
\* position.x + size.width * pixelsPerMillimeter <= imageWidth and
\* position.y + size.height * pixelsPerMillimeter <= imageHeight; a fixture
\* whose pixel size equals the image size fits at the origin and does not
\* fit 1 pixel past any of the four edges.
C10_CheckFitBoundary ==
  fitCalled =>
    /\ fitResult <=>
         /\ fitPosition.x >= 0
         /\ fitPosition.y >= 0
         /\ fitPosition.x + fitSize.width * fitScale.pixelsPerMillimeter <= fitScale.imageWidth
         /\ fitPosition.y + fitSize.height * fitScale.pixelsPerMillimeter <= fitScale.imageHeight
    /\ (FitExactSize /\ fitPosition = [x |-> 0, y |-> 0]) => fitResult
    /\ (FitExactSize /\ fitPosition \in { [x |-> 1, y |-> 0], [x |-> -1, y |-> 0],
                                          [x |-> 0, y |-> 1], [x |-> 0, y |-> -1] })
         => ~ fitResult

\* C10 witness: a fixture as large as the image was checked at the origin and fits.
C10_Witness ==
  /\ fitCalled
  /\ FitExactSize
  /\ fitPosition = [x |-> 0, y |-> 0]
  /\ fitResult

\* The arguments of the checkFit call are invalid: a negative side, or a scale
\* that is not positive.
InvalidFitInput ==
  \/ fitSize.width < 0
  \/ fitSize.height < 0
  \/ fitScale.pixelsPerMillimeter <= 0

\* C11: checkFit fails closed: for a negative fixture width or height, or a
\* scale with pixelsPerMillimeter <= 0, it returns false.
C11_CheckFitFailsClosed ==
  (fitCalled /\ InvalidFitInput) => ~ fitResult

\* |a - b| is at most 2^(2 - SignificandBits) times b: the error two roundings
\* to nearest can add up to.
WithinTolerance(a, b) ==
  LET lo == Min(a.e, b.e)
      av == a.m * Pow2(a.e - lo)
      bv == b.m * Pow2(b.e - lo)
      diff == IF av >= bv THEN av - bv ELSE bv - av
  IN diff * Pow2(SignificandBits - 2) <= bv

\* C12 as stated: the round trip mm -> px -> mm returns exactly mm, and the
\* round trip px -> mm -> px returns exactly px.
C12_RoundTripEquals ==
  (rtDirection # "none") => rtBack = rtValue

\* C12: for every value > 0 and every scale with pixelsPerMillimeter > 0, the
\* round trip in either direction returns the value within the tolerance of
\* two roundings, and returns it exactly when pixelsPerMillimeter is a power
\* of two.
C12_RoundTripWithinTolerance ==
  (rtDirection # "none") =>
    /\ WithinTolerance(rtBack, rtValue)
    /\ (rtScale.pixelsPerMillimeter.m = MinMantissa) => rtBack = rtValue

\* C12 witness: a round trip from millimeters came back next to, not on, the
\* value it started from.
C12_Witness ==
  /\ rtDirection = "mm"
  /\ rtBack # rtValue
  /\ WithinTolerance(rtBack, rtValue)

\* ---- the calibrator, in the claims' terms
LineById(id) == CHOOSE l \in LineCatalogue : l.id = id

\* The scale of a line from its stored pixelLength.
StoredScale(line) == RDiv(line.pixelLength, RInt(line.realLength))

ClaimScales == [ i \in 1..Len(calLines) |-> StoredScale(calLines[i]) ]

\* The sum of the scales of the lines whose indices are in S.
RECURSIVE ScaleSumOver(_)
ScaleSumOver(S) ==
  IF S = {} THEN RInt(0)
  ELSE LET i == CHOOSE j \in S : TRUE
       IN RAdd(ClaimScales[i], ScaleSumOver(S \ {i}))

\* m is the arithmetic mean of the scales of the lines whose indices are in S.
IsMeanOver(m, S) == RMul(m, RInt(Cardinality(S))) = ScaleSumOver(S)

ClaimMean == RDiv(ScaleSumOver(1..Len(calLines)), RInt(Len(calLines)))

ClaimDeviation(i) == RAbs(RSub(ClaimScales[i], ClaimMean))

\* No line deviates more from the mean than line i does.
DeviatesMost(i) == \A j \in 1..Len(calLines) : ~ RLt(ClaimDeviation(i), ClaimDeviation(j))

\* C13: calculateScaleFromLines returns null exactly when the line set is
\* empty, and otherwise the arithmetic mean over all lines of pixel length /
\* realLength; lines of 100px/100mm and 300px/300mm give 1.
C13_AverageScaleIsMean ==
  calCalled =>
    /\ (calScale = Null) <=> (calLines = << >>)
    /\ (calLines # << >>) => IsMeanOver(calScale, 1..Len(calLines))
    /\ (calLines = << LineById("dim-1"), LineById("dim-3") >>) => calScale = RInt(1)

\* C13 witness: the lines 100px/100mm and 300px/300mm were averaged to 1.
C13_Witness ==
  /\ calCalled
  /\ calLines = << LineById("dim-1"), LineById("dim-3") >>
  /\ calScale = RInt(1)

HorizontalClass ==
  { i \in 1..Len(calLines) :
      Abs(calLines[i].end.x - calLines[i].start.x) > Abs(calLines[i].end.y - calLines[i].start.y) }

VerticalClass == (1..Len(calLines)) \ HorizontalClass

\* C14: calculateSeparateScales takes a line as horizontal when |dx| > |dy|
\* and as vertical otherwise; scaleX is the mean scale of the horizontal
\* lines and scaleY of the vertical lines, each null exactly when its class
\* is empty; mismatchPercent is |scaleX - scaleY| / ((scaleX + scaleY)/2) *
\* 100 when both exist and null otherwise.
C14_SeparateScales ==
  calCalled =>
    /\ (calSeparate.scaleX = Null) <=> (HorizontalClass = {})
    /\ (calSeparate.scaleY = Null) <=> (VerticalClass = {})
    /\ (HorizontalClass # {}) => IsMeanOver(calSeparate.scaleX, HorizontalClass)
    /\ (VerticalClass # {}) => IsMeanOver(calSeparate.scaleY, VerticalClass)
    /\ (calSeparate.mismatchPercent = Null) <=> (HorizontalClass = {} \/ VerticalClass = {})
    /\ (HorizontalClass # {} /\ VerticalClass # {}) =>
         RMul(calSeparate.mismatchPercent, RAdd(calSeparate.scaleX, calSeparate.scaleY))
           = RMul(RInt(200), RAbs(RSub(calSeparate.scaleX, calSeparate.scaleY)))

\* C14 witness: a diagonal line (|dx| = |dy|) was counted as vertical next to
\* a horizontal line, and the two class scales differ.
C14_Witness ==
  /\ calCalled
  /\ calLines = << LineById("dim-1"), LineById("dim-5") >>
  /\ calSeparate.scaleX = RInt(1)
  /\ calSeparate.scaleY = StoredScale(LineById("dim-5"))
  /\ calSeparate.mismatchPercent # Null

\* The mismatch of two lines, |s1 - s2| / ((s1 + s2)/2) * 100, exceeds 5.
PairMismatchAboveFive ==
  RLt(RMul(RInt(5), RAdd(ClaimScales[1], ClaimScales[2])),
      RMul(RInt(200), RAbs(RSub(ClaimScales[1], ClaimScales[2]))))

\* C15: for exactly 2 lines, mismatchPercent = |s1 - s2| / ((s1 + s2)/2) * 100;
\* above 5 the result is invalid and flags a line that no other line
\* out-deviates from the pairwise average; at 5 or below the result is valid
\* with no line flagged.  100px/100mm with 100px/80mm is invalid, second line
\* flagged.
C15_TwoLineValidation ==
  (calCalled /\ Len(calLines) = 2) =>
    /\ RMul(calValidation.mismatchPercent, RAdd(ClaimScales[1], ClaimScales[2]))
         = RMul(RInt(200), RAbs(RSub(ClaimScales[1], ClaimScales[2])))
    /\ PairMismatchAboveFive =>
         /\ calValidation.isValid = FALSE
         /\ calValidation.inconsistentLineIndex \in {0, 1}
         /\ DeviatesMost(calValidation.inconsistentLineIndex + 1)
    /\ (~ PairMismatchAboveFive) =>
         /\ calValidation.isValid = TRUE
         /\ calValidation.inconsistentLineIndex = NullIndex
    /\ (calLines = << LineById("dim-1"), LineById("dim-2") >>) =>
         /\ calValidation.isValid = FALSE
         /\ calValidation.inconsistentLineIndex = 1

\* C15 witness: 100px/100mm and 100px/80mm were validated, the second flagged.
C15_Witness ==
  /\ calCalled
  /\ calLines = << LineById("dim-1"), LineById("dim-2") >>
  /\ calValidation.isValid = FALSE
  /\ calValidation.inconsistentLineIndex = 1

\* The largest deviation from the mean exceeds 10% of the mean.
MaxDeviationAboveTenPercent ==
  \E i \in 1..Len(calLines) : RLt(RMul(RInt(10), ClaimMean), RMul(RInt(100), ClaimDeviation(i)))

\* C16: for more than 2 lines, the line flagged has the maximum absolute
\* deviation from the mean scale, and a line is flagged exactly when that
\* deviation exceeds 10% of the mean, with mismatchPercent = deviation / mean
\* * 100; otherwise the result is valid with no line flagged.
C16_ManyLineValidation ==
  (calCalled /\ Len(calLines) > 2) =>
    /\ MaxDeviationAboveTenPercent =>
         /\ calValidation.isValid = FALSE
         /\ calValidation.inconsistentLineIndex \in 0..(Len(calLines) - 1)
         /\ DeviatesMost(calValidation.inconsistentLineIndex + 1)
         /\ RMul(calValidation.mismatchPercent, ClaimMean)
              = RMul(RInt(100), ClaimDeviation(calValidation.inconsistentLineIndex + 1))
    /\ (~ MaxDeviationAboveTenPercent) =>
         /\ calValidation.isValid = TRUE
         /\ calValidation.inconsistentLineIndex = NullIndex

\* C16 witness: of three lines the one of scale 5/4 next to two of scale 1
\* was flagged.
C16_Witness ==
  /\ calCalled
  /\ calLines = << LineById("dim-1"), LineById("dim-2"), LineById("dim-3") >>
  /\ calValidation.isValid = FALSE
  /\ calValidation.inconsistentLineIndex = 1

\* Exactly the lines i and j (i before j) deviate most from the mean.
TiedForLargest(i, j) ==
  /\ i < j
  /\ { k \in 1..Len(calLines) : DeviatesMost(k) } = {i, j}

\* C17: when a line is flagged and two lines are tied for the largest
\* deviation from the mean scale, the later-indexed of the two is flagged,
\* for 2 lines and for more than 2 lines.
C17_TieFlagsLaterLine ==
  (calCalled /\ calValidation.isValid = FALSE) =>
    \A i, j \in 1..Len(calLines) :
      TiedForLargest(i, j) => calValidation.inconsistentLineIndex = j - 1

\* ---- the application, in the claims' terms
\* m is the arithmetic mean of pixelLength / realLength over the lines.
IsMeanScaleOf(m, lines) ==
  LET scales == [ i \in 1..Len(lines) |-> StoredScale(lines[i]) ]
  IN RMul(m, RInt(Len(lines))) = RSum(scales)

\* C18: validation is advisory: whenever ScaleCalibration is rendered with a
\* non-empty set of reference lines the emission is due whatever the
\* validation says, and every emission sets pixelsPerMillimeter to the mean
\* scale of the lines, with isValid true or false.
C18_ValidationIsAdvisory ==
  /\ (Calibrating /\ state.dimensionLines # << >>) => ShouldEmit(state.dimensionLines)
  /\ justEmitted =>
       /\ state.dimensionLines # << >>
       /\ state.scaleInfo # Null
       /\ IsMeanScaleOf(state.scaleInfo.pixelsPerMillimeter, state.dimensionLines)

\* C18 witness: a scale was emitted for lines that the validation reports
\* invalid.
C18_Witness ==
  /\ justEmitted
  /\ validateDimensionLines(state.dimensionLines).isValid = FALSE
  /\ IsMeanScaleOf(state.scaleInfo.pixelsPerMillimeter, state.dimensionLines)

\* C19: every emitted ScaleInfo carries the imageWidth and imageHeight of the
\* last reference line of the set, whatever the earlier lines carry.
C19_LastLineGivesReferenceFrame ==
  justEmitted =>
    LET lines == state.dimensionLines
    IN /\ state.scaleInfo.imageWidth = lines[Len(lines)].imageWidth
       /\ state.scaleInfo.imageHeight = lines[Len(lines)].imageHeight

\* C19 witness: the emission for two lines drawn on different displays took
\* the frame of the last line, not of the first.
C19_Witness ==
  LET lines == state.dimensionLines
  IN /\ justEmitted
     /\ Len(lines) = 2
     /\ lines[1].imageWidth # lines[2].imageWidth
     /\ state.scaleInfo.imageWidth = lines[2].imageWidth
     /\ state.scaleInfo.imageHeight = lines[2].imageHeight

\* C20: in every state of the application scaleInfo is null or its
\* pixelsPerMillimeter is the mean scale of the current reference lines; it
\* is null whenever there are no lines.
C20_ScaleInfoConsistentWithLines ==
  IF state.dimensionLines = << >>
  THEN state.scaleInfo = Null
  ELSE \/ state.scaleInfo = Null
       \/ IsMeanScaleOf(state.scaleInfo.pixelsPerMillimeter, state.dimensionLines)


\* The rectangle an attempt tried: the orientation's pixel size at the
\* position the search returned.
AttemptRect(a) ==
  [ x |-> a.position.x, y |-> a.position.y, width |-> a.width, height |-> a.height ]

\* Two rectangles that share a stretch of an edge and no interior point.
SharesEdgeOnly(a, b) ==
  /\ ~ Intersects(a, b)
  /\ \/ /\ (a.x + a.width = b.x \/ b.x + b.width = a.x)
        /\ a.y < b.y + b.height
        /\ b.y < a.y + a.height
     \/ /\ (a.y + a.height = b.y \/ b.y + b.height = a.y)
        /\ a.x < b.x + b.width
        /\ b.x < a.x + a.width

\* C23: at the moment a placement is recorded, the placed rectangle shares no
\* interior point with any rectangle then in the occupancy list (every
\* obstacle and every rectangle placed earlier in the call); the rectangle
\* pushed for it is the placed rectangle; touching along an edge is allowed.
C23_PlacementAvoidsCurrentOccupancy ==
  \A k \in 1..Len(attempts) :
    attempts[k].outcome = "placed" =>
      /\ attempts[k].occLen < Len(occupiedSpaces)
      /\ occupiedSpaces[attempts[k].occLen + 1] = AttemptRect(attempts[k])
      /\ \A i \in 1..attempts[k].occLen :
           ~ Intersects(AttemptRect(attempts[k]), occupiedSpaces[i])

\* C23 witness: a placement was recorded while the occupancy list held an
\* obstacle and an earlier placement, and the placed rectangle touches one of
\* them along an edge.
C23_Witness ==
  \E k \in 1..Len(attempts) :
    /\ attempts[k].outcome = "placed"
    /\ attempts[k].occLen > Len(existingFixtures)
    /\ Len(existingFixtures) > 0
    /\ \E i \in 1..attempts[k].occLen :
         SharesEdgeOnly(AttemptRect(attempts[k]), occupiedSpaces[i])

\* The candidate a returned fixture stems from: same name and the same width
\* and height in millimeters.
StemsFrom(p, f) ==
  p.name = f.name /\ p.width = f.width /\ p.height = f.height

\* C30: the placements made so far, and the result once the call has
\* returned, correspond one-to-one to a subset of the candidates: no
\* candidate appears twice, the list is never longer than the candidate
\* list, every entry has its candidate's name, width and height in
\* millimeters unchanged, and its rotation is 0 or 90.
C30_ResultIsSubsetOfCandidates ==
  LET Holds(list) ==
        /\ Len(list) <= Len(fixtures)
        /\ \A i, j \in 1..Len(list) : i # j => list[i].name # list[j].name
        /\ \A i \in 1..Len(list) :
             /\ \E k \in 1..Len(fixtures) : StemsFrom(list[i], fixtures[k])
             /\ list[i].rotation \in {0, 90}
  IN /\ pc = "loop" => Holds(placedFixtures)
     /\ pc = "done" => Holds(result)

\* C30 witness: a call returned as many fixtures as it had candidates, one of
\* them rotated and of a size that differs from its rotated size.
C30_Witness ==
  /\ pc = "done"
  /\ Len(result) = MaxFixtures
  /\ Len(result) = Len(fixtures)
  /\ \E i \in 1..Len(result) :
       result[i].rotation = 90 /\ result[i].width # result[i].height

\* The rectangle the earlier call reserved for its i-th returned fixture.
ReservedByEarlierCall(i) == PlacedRect(prevResult[i])

\* The rectangle seeded in the later call for the i-th fixture the earlier
\* call returned: the obstacles of the earlier call come first.
SeededForEarlier(i) == occupiedSpaces[Len(snapshot.existingFixtures) + i]

\* C27: when the fixtures returned by one call have been appended to the
\* placed fixtures and passed as existingFixtures to a later call with the
\* same scaleInfo, the obstacle rectangle seeded for each of them equals the
\* rectangle reserved for it by the earlier call, and no fixture placed by
\* the later call intersects a rectangle reserved by the earlier call.
C27_ChainedCallsKeepReservedRectangles ==
  (calls = 2 /\ pc # "idle") =>
    /\ \A i \in 1..Len(prevResult) :
         SeededForEarlier(i) = ReservedByEarlierCall(i)
    /\ \A i \in 1..Len(prevResult), j \in 1..Len(placedFixtures) :
         ~ Intersects(PlacedRect(placedFixtures[j]), ReservedByEarlierCall(i))

\* A step of a handler that hands its new state to saveToHistory.
SavingChange ==
  UploadImage \/ AddLine \/ DeleteLine \/ ClearAllLines \/ EmitScale

\* C26: when a change is saved while entries lie after the current index
\* (one or more undos were made), the entries after the current index are
\* removed and the new state is appended as the latest entry, which becomes
\* current: redo is no longer possible, and the entry before it, to which a
\* following undo returns, is the state that was current before the change.
C26_ChangeAfterUndoDropsRedoEntries ==
  [][ (SavingChange /\ historyIndexRef < Len(historyRef) - 1) =>
        /\ historyRef' = Append(SubSeq(historyRef, 1, historyIndexRef + 1), state')
        /\ historyIndexRef' = Len(historyRef') - 1
        /\ ~ ENABLED Redo
        /\ historyRef'[historyIndexRef'] = state ]_vars

\* C29: in the exactly-2-lines case both lines deviate equally from their
\* pairwise average, so whenever the validation reports a mismatch above 5
\* the flagged inconsistentLineIndex is 1, the second line.
C29_TwoLinesAlwaysFlagSecond ==
  (devCalled /\ ~ devValidation.isValid) =>
    /\ devValidation.dev1 = devValidation.dev2
    /\ devValidation.inconsistentLineIndex = 1

\* Nothing is queued and no effect is waiting.
HookQuiescent == mounted /\ pendingUpdates = << >> /\ effectsDue = << >>

\* Both mount effects have run.
MountEffectsRan == mounted /\ effectsDue = << >>

\* C22 (as stated): if localStorage held a list when the hook mounted, then
\* once the mount effects have run, and before any handler is called, the
\* in-memory list and the localStorage entry equal that list.
C22_StoredListAfterMountEffects ==
  (MountEffectsRan /\ opsDone = 0 /\ storedAtMount.present) =>
    /\ customFixtures = JSONParse(storedAtMount.text)
    /\ storageEntry = storedAtMount

\* C22 (amended): if localStorage held a list when the hook mounted, then
\* once the mount effects and the render they queue have run, and before any
\* handler is called, the in-memory list and the localStorage entry equal
\* that list; whenever nothing is queued the entry is the in-memory list as
\* text; and after every handler call that point is reached again.  Between
\* the save effect of the mount and the next render the entry holds the
\* empty list.
C22_StoredListSurvivesAndEntryFollows ==
  /\ [] ( (HookQuiescent /\ opsDone = 0 /\ storedAtMount.present) =>
            /\ customFixtures = JSONParse(storedAtMount.text)
            /\ storageEntry = storedAtMount )
  /\ [] ( HookQuiescent => storageEntry = Entry(JSONStringify(customFixtures)) )
  /\ []<> HookQuiescent

\* C22 witness: a stored list with a fixture was loaded, handlers were called
\* and the entry holds the longer in-memory list.
C22_Witness ==
  /\ HookQuiescent
  /\ storedAtMount.present
  /\ Len(storedAtMount.text) = 1
  /\ opsDone = MaxOps
  /\ Len(customFixtures) > 1
  /\ storageEntry = Entry(JSONStringify(customFixtures))

\* The positions a grid of the given step has inside the usable area: the
\* top-left corner plus multiples of the step, the rectangle within bounds.
GridPositions(step, width, height, ua) ==
  { [x |-> ua.x + k * step, y |-> ua.y + l * step] :
      k \in 0..((ua.width - width) \div step), l \in 0..((ua.height - height) \div step) }

FreePositions(step, width, height, ua, occ) ==
  { p \in GridPositions(step, width, height, ua) : FreeAt(p.x, p.y, width, height, occ) }

\* The first of a non-empty set of positions in row-major order.
FirstRowMajor(S) ==
  CHOOSE p \in S : \A q \in S : p.y < q.y \/ (p.y = q.y /\ p.x <= q.x)

ClaimCoarseStep(width) == Max(10, Min(100, width \div 10))
ClaimFineStep(width) == Max(5, ClaimCoarseStep(width) \div 2)

\* C24: findBestPosition returns the first position in row-major order of
\* the coarse grid (step max(10, min(100, width/10)) in x and y, from the
\* usable area's top-left corner) that is in bounds and free; if the coarse
\* grid has none, the first such position of the grid of step
\* max(5, coarseStep/2); if that has none, null.  With an empty occupancy
\* list a fixture that fits is placed at the usable area's top-left corner.
C24_FirstFreeGridPositionRowMajor ==
  findCalled =>
    LET w == findArgs.width
        h == findArgs.height
        ua == findArgs.usableArea
        occ == findArgs.occupiedSpaces
        coarseFree == FreePositions(ClaimCoarseStep(w), w, h, ua, occ)
        fineFree == FreePositions(ClaimFineStep(w), w, h, ua, occ)
    IN /\ coarseFree # {} => findResult = FirstRowMajor(coarseFree)
       /\ (coarseFree = {} /\ fineFree # {}) => findResult = FirstRowMajor(fineFree)
       /\ (coarseFree = {} /\ fineFree = {}) => findResult = NoPosition
       /\ (occ = << >> /\ w <= ua.width /\ h <= ua.height) =>
            findResult = [x |-> ua.x, y |-> ua.y]

\* C24 witness: a width whose tenth exceeds 100 was searched, the coarse grid
\* had no free position and the finer grid gave one.
C24_Witness ==
  /\ findCalled
  /\ findArgs.width \div 10 > 100
  /\ FreePositions(ClaimCoarseStep(findArgs.width), findArgs.width, findArgs.height,
                   findArgs.usableArea, findArgs.occupiedSpaces) = {}
  /\ findResult # NoPosition

\* The coarse pass of the call found nothing.
CoarsePassFailed ==
  ScanGrid(findArgs.usableArea.y, findArgs.width, findArgs.height,
           findArgs.usableArea, findArgs.occupiedSpaces,
           CoarseStep(findArgs.width)) = NoPosition

\* C28: the fine step is exactly half the coarse step, every coarse-grid
\* position is a fine-grid position, findBestPosition returns null exactly
\* when no fine-grid position inside the usable area is free, and a position
\* returned by the fine pass is not a coarse-grid position.
C28_CoarseGridInsideFineGrid ==
  findCalled =>
    LET w == findArgs.width
        h == findArgs.height
        ua == findArgs.usableArea
        occ == findArgs.occupiedSpaces
        step == CoarseStep(w)
        fineStep == FineStep(step)
    IN /\ 2 * fineStep = step
       /\ GridPositions(step, w, h, ua) \subseteq GridPositions(fineStep, w, h, ua)
       /\ findResult = NoPosition <=> FreePositions(fineStep, w, h, ua, occ) = {}
       /\ (CoarsePassFailed /\ findResult # NoPosition) =>
            findResult \notin GridPositions(step, w, h, ua)

\* C28 witness: with a coarse step of 12 and a non-empty occupancy list the
\* coarse pass failed and the fine pass returned a position.
C28_Witness ==
  /\ findCalled
  /\ CoarseStep(findArgs.width) = 12
  /\ CoarsePassFailed
  /\ findResult # NoPosition
  /\ findArgs.occupiedSpaces # << >>

\* r, a number of eighths, is the Euclidean distance of the two points
\* rounded down to eighths.
IsDistanceInEighths(r, a, b) ==
  LET d2 == (a.x - b.x) * (a.x - b.x) + (a.y - b.y) * (a.y - b.y)
      n == (r.n * 8) \div r.d
  IN /\ n * r.d = r.n * 8
     /\ n * n <= 64 * d2
     /\ 64 * d2 < (n + 1) * (n + 1)

\* C25: every line DimensionLineTool has created has a realLength > 0, is
\* longer than 10 pixels and stores the Euclidean distance of its end points
\* as pixelLength; so the scale computed from the created lines is > 0 as
\* soon as there is a line, and no divisor of the calibration (a realLength,
\* the average scale, the averages of the two classes) is 0.
C25_CreatedLinesGivePositiveScale ==
  /\ \A i \in 1..Len(createdLines) :
       LET line == createdLines[i] IN
       /\ line.realLength > 0
       /\ RLt(RInt(10), line.pixelLength)
       /\ IsDistanceInEighths(line.pixelLength, line.start, line.end)
  /\ createdLines # << >> =>
       /\ ShouldEmit(createdLines)
       /\ EmittedScaleInfo(createdLines, lineTool.imageSize).pixelsPerMillimeter.n > 0
       /\ \A i \in 1..Len(createdLines) : LineScale(createdLines[i]).n > 0

\* C25 witness: as many lines as the tool may create were created, one of
\* them a little over 10 pixels long, one with a real length of 25.
C25_Witness ==
  /\ Len(createdLines) = MaxLines
  /\ \E i \in 1..Len(createdLines) : createdLines[i].end = [x |-> 7, y |-> 8]
  /\ \E i \in 1..Len(createdLines) : createdLines[i].realLength = 25

\* The unrotated rectangle of a fixture lies within the image of the scale.
WithinImage(f, scaleInfo) ==
  /\ f.position.x >= 0
  /\ f.position.y >= 0
  /\ f.position.x + f.width * scaleInfo.pixelsPerMillimeter <= scaleInfo.imageWidth
  /\ f.position.y + f.height * scaleInfo.pixelsPerMillimeter <= scaleInfo.imageHeight

\* C21: after any sequence of click-placements and drag moves, every fixture
\* of state.fixtures has its unrotated rectangle within the image bounds of
\* scaleInfo, and it is at the image centre, at the top-left corner or at a
\* position a drag handed over; a fixture that fits nowhere is not added.
C21_ManualFixturesStayWithinImage ==
  \A i \in 1..Len(state.fixtures) :
    LET f == state.fixtures[i] IN
    /\ WithinImage(f, state.scaleInfo)
    /\ \/ f.position = [ x |-> imageDimensions.width \div 2, y |-> imageDimensions.height \div 2 ]
       \/ f.position = [ x |-> 0, y |-> 0 ]
       \/ f.position \in ManualDragPositions

\* C21 witness: one fixture was placed at the top-left corner because the
\* centre did not fit, another was dragged to the right edge of the image.
C21_Witness ==
  /\ Len(state.fixtures) = 2
  /\ imageDimensions.width \div 2 = state.scaleInfo.imageWidth
  /\ state.fixtures[1].position = [ x |-> 0, y |-> 0 ]
  /\ historyIndexRef = 2
  /\ state.fixtures[2].position.x + state.fixtures[2].width * state.scaleInfo.pixelsPerMillimeter
       = state.scaleInfo.imageWidth
====
